---- MODULE Spec2Model ----
(***************************************************************************)
(* Model of the computational core of the RC/RL calculator                 *)
(* (src/src/rc_rl_calculator/core/calculations.py).                        *)
(*                                                                         *)
(* Numbers.  The core works on Python floats and on None.  A float is      *)
(* modelled as a record [t, e]:                                            *)
(*   t = "none"  None (value not supplied / not determined)                *)
(*   t = "neg"   a negative float                                          *)
(*   t = "zero"  0.0                                                       *)
(*   t = "pos"   the positive finite float TWO_PI^e                        *)
(*   t = "inf"   float("inf")                                              *)
(*   t = "nan"   the not-a-number produced by inf*0 and inf/inf            *)
(*   t = "zde"   marks an expression that raised ZeroDivisionError         *)
(* Positive finite floats lie on the logarithmic grid TWO_PI^e with        *)
(* -EMin <= e <= EMax, the range of an IEEE-754 double (subnormals         *)
(* included).  Products and quotients that leave the range overflow to inf *)
(* or underflow to 0.0.  Multiplication and division are exact on the      *)
(* grid: rounding errors of the doubles are far below the tolerances the   *)
(* code compares with.                                                     *)
(***************************************************************************)
EXTENDS Integers, Sequences, FiniteSets, TLC

\* Exponent range of the finite positive floats: TWO_PI^386 is about 1.2e308
\* and TWO_PI^387 overflows to inf; TWO_PI^(-405) is about 5e-324, the
\* smallest subnormal, and TWO_PI^(-406) underflows to 0.0.
EMax == 386
EMin == 405

\* abs_tol = 1e-9 of math.isclose on the grid: TWO_PI^e <= 1e-9 iff e <= -12.
AbsTolExp == -12

None_ == [t |-> "none", e |-> 0]
Neg   == [t |-> "neg",  e |-> 0]
Zero  == [t |-> "zero", e |-> 0]
Inf   == [t |-> "inf",  e |-> 0]
NaN   == [t |-> "nan",  e |-> 0]
ZDE   == [t |-> "zde",  e |-> 0]
Pos(e) == [t |-> "pos", e |-> e]
One   == Pos(0)
TWO_PI == Pos(1)

IsNone(x) == x.t = "none"
\* x < 0
IsNegative(x) == x.t = "neg"
\* x <= 0
IsNonPositive(x) == x.t \in {"neg", "zero"}
\* x > 0
IsPositive(x) == x.t \in {"pos", "inf"}
\* math.isinf(x)
isinf(x) == x.t = "inf"

\* Rounding of an exact result TWO_PI^e to the float range.
Norm(e) == IF e > EMax THEN Inf ELSE IF e < -EMin THEN Zero ELSE Pos(e)

\* a * b (IEEE-754: inf * 0 is nan).  The code rejects negative arguments
\* before it multiplies; the sign rule is kept for completeness.
Mul(a, b) ==
  IF a.t = "zde" \/ b.t = "zde" THEN ZDE
  ELSE IF a.t = "nan" \/ b.t = "nan" THEN NaN
  ELSE IF a.t = "zero" THEN (IF b.t = "inf" THEN NaN ELSE Zero)
  ELSE IF b.t = "zero" THEN (IF a.t = "inf" THEN NaN ELSE Zero)
  ELSE IF a.t = "neg" \/ b.t = "neg"
    THEN (IF a.t = b.t THEN One ELSE Neg)
  ELSE IF a.t = "inf" \/ b.t = "inf" THEN Inf
  ELSE Norm(a.e + b.e)

\* a / b with the operands exchanged.
Div_Inverted(a, b) ==
  IF b.t = "zde" \/ a.t = "zde" THEN ZDE
  ELSE IF a.t = "zero" THEN ZDE
  ELSE IF b.t = "nan" \/ a.t = "nan" THEN NaN
  ELSE IF b.t = "inf" THEN (IF a.t = "inf" THEN NaN ELSE Inf)
  ELSE IF a.t = "inf" THEN Zero
  ELSE IF b.t = "zero" THEN Zero
  ELSE Norm(b.e - a.e)

\* a / b on non-negative floats (Python: any float / 0.0 raises
\* ZeroDivisionError; IEEE-754: inf / inf is nan).
Div(a, b) ==
  IF a.t = "zde" \/ b.t = "zde" THEN ZDE
  ELSE IF b.t = "zero" THEN ZDE
  ELSE IF a.t = "nan" \/ b.t = "nan" THEN NaN
  ELSE IF a.t = "inf" THEN (IF b.t = "inf" THEN NaN ELSE Inf)
  ELSE IF b.t = "inf" THEN Zero
  ELSE IF a.t = "zero" THEN Zero
  ELSE Norm(a.e - b.e)

\* math.isclose(a, b, rel_tol=1e-6, abs_tol=1e-9) on finite non-negative
\* floats and nan.  Two different grid values differ by a factor of at least
\* TWO_PI, so the relative tolerance never accepts them; the absolute
\* tolerance accepts them when both are at most 1e-9.
IsSmall(x) == x.t = "zero" \/ (x.t = "pos" /\ x.e <= AbsTolExp)
isclose(a, b) ==
  IF a.t = "nan" \/ b.t = "nan" THEN FALSE
  ELSE a = b \/ (IsSmall(a) /\ IsSmall(b))

(***************************************************************************)
(* Signed floats.  The impedance arithmetic subtracts, so its values carry *)
(* a sign: t = "neg" with exponent e is -(TWO_PI^e), t = "ninf" is -inf    *)
(* and t = "nzero" is -0.0.  Sums are rounded to the grid: the sum of two  *)
(* values of one sign is the larger one (it lies within a factor 2 of it), *)
(* and so is the difference of two different grid values.                  *)
(***************************************************************************)
NZero == [t |-> "nzero", e |-> 0]
NInf  == [t |-> "ninf",  e |-> 0]
NegOf(e) == [t |-> "neg", e |-> e]

\* The sign bit of a float as +1 / -1.
Sgn(a) == IF a.t \in {"neg", "ninf", "nzero"} THEN -1 ELSE 1

\* abs(a).
Mag(a) ==
  IF a.t = "neg" THEN Pos(a.e)
  ELSE IF a.t = "ninf" THEN Inf
  ELSE IF a.t = "nzero" THEN Zero
  ELSE a

\* The non-negative float m with the sign s.
WithSign(s, m) ==
  IF s = 1 THEN m
  ELSE IF m.t = "pos" THEN NegOf(m.e)
  ELSE IF m.t = "inf" THEN NInf
  ELSE IF m.t = "zero" THEN NZero
  ELSE m

\* -a
Minus(a) == WithSign(0 - Sgn(a), Mag(a))

\* a * b on signed floats.
SMul(a, b) == WithSign(Sgn(a) * Sgn(b), Mul(Mag(a), Mag(b)))

\* a / b on signed floats as the C library computes it inside the complex
\* quotient: no exception, x / 0 is an infinity and 0 / 0 is nan.
CDiv(a, b) ==
  IF a.t = "nan" \/ b.t = "nan" THEN NaN
  ELSE IF Mag(b) = Zero
    THEN (IF Mag(a) = Zero THEN NaN ELSE WithSign(Sgn(a) * Sgn(b), Inf))
  ELSE WithSign(Sgn(a) * Sgn(b), Div(Mag(a), Mag(b)))

\* a + b on signed floats (IEEE-754: inf + -inf is nan, x + -x is +0.0).
SAdd(a, b) ==
  IF a.t = "nan" \/ b.t = "nan" THEN NaN
  ELSE IF Mag(a) = Inf
    THEN (IF Mag(b) = Inf /\ Sgn(a) # Sgn(b) THEN NaN ELSE a)
  ELSE IF Mag(b) = Inf THEN b
  ELSE IF Mag(a) = Zero
    THEN (IF Mag(b) = Zero THEN (IF Sgn(a) = Sgn(b) THEN a ELSE Zero) ELSE b)
  ELSE IF Mag(b) = Zero THEN a
  ELSE IF a.e > b.e THEN a
  ELSE IF b.e > a.e THEN b
  ELSE IF Sgn(a) = Sgn(b) THEN a
  ELSE Zero

\* a - b
SSub(a, b) == SAdd(a, Minus(b))

\* a == 0 (both zeros compare equal to 0).
IsZero(a) == Mag(a) = Zero

\* math.hypot(a, b): an infinite argument wins over nan; on the grid the
\* root of the sum of squares is the larger magnitude.
hypot(a, b) ==
  IF Mag(a) = Inf \/ Mag(b) = Inf THEN Inf
  ELSE IF a.t = "nan" \/ b.t = "nan" THEN NaN
  ELSE IF Mag(a) = Zero THEN Mag(b)
  ELSE IF Mag(b) = Zero THEN Mag(a)
  ELSE IF a.e >= b.e THEN Mag(a) ELSE Mag(b)

\* SQRT_2 on the grid: TWO_PI^0.19 is rounded to TWO_PI^0, so that a product
\* with SQRT_2 stays on its grid value.
SQRT_2 == Pos(0)

\* The values x * SQRT_2 can take.  The largest grid value stands for the
\* doubles from TWO_PI^EMax up to the largest one; the product of SQRT_2
\* with those beyond 1.27e308 overflows to inf, with the others it does not.
TimesSqrt2(x) ==
  IF x = Pos(EMax) THEN {x, Inf} ELSE {Mul(x, SQRT_2)}

\* Angles in degrees.  Deg(n) is exactly n degrees; Acute(s) is an angle
\* strictly between 0 and s*90 degrees, Obtuse(s) one strictly between s*90
\* and s*180 degrees; DegNaN is nan.
Deg(n) == [t |-> "deg", e |-> n]
Acute(s) == [t |-> "acute", e |-> s]
Obtuse(s) == [t |-> "obtuse", e |-> s]
DegNaN == [t |-> "nan", e |-> 0]

\* The quotient y / x is beyond 2^53, so that atan2 rounds to a right angle.
RoundsToRightAngle == 20

\* math.degrees(math.atan2(y, x)) on signed floats.  -0.0 degrees is
\* reported as Deg(0): it compares equal to 0.
atan2_degrees(y, x) ==
  IF y.t = "nan" \/ x.t = "nan" THEN DegNaN
  ELSE IF Mag(y) = Zero
    THEN (IF Sgn(x) = 1 THEN Deg(0) ELSE Deg(Sgn(y) * 180))
  ELSE IF Mag(x) = Zero THEN Deg(Sgn(y) * 90)
  ELSE IF Mag(y) = Inf
    THEN (IF Mag(x) = Inf
            THEN (IF Sgn(x) = 1 THEN Acute(Sgn(y)) ELSE Obtuse(Sgn(y)))
            ELSE Deg(Sgn(y) * 90))
  ELSE IF Mag(x) = Inf
    THEN (IF Sgn(x) = 1 THEN Deg(0) ELSE Deg(Sgn(y) * 180))
  ELSE IF y.e - x.e >= RoundsToRightAngle THEN Deg(Sgn(y) * 90)
  ELSE IF y.e - x.e < 0 - EMin
    THEN (IF Sgn(x) = 1 THEN Deg(0) ELSE Deg(Sgn(y) * 180))
  ELSE IF Sgn(x) = 1 THEN Acute(Sgn(y)) ELSE Obtuse(Sgn(y))

\* F(v) with the local value v computed once (an assignment to a local
\* variable of the code).
Local(v, F(_)) == CHOOSE r \in {F(x) : x \in {v}} : TRUE

\* Complex numbers are pairs [re, im] of signed floats.
Complex(re, im) == [re |-> re, im |-> im]

\* 1 / b for a complex b that is neither nan nor 0: the quotient of
\* CPython's complex division with the dividend 1 + 0j.
c_quot_one(b) ==
  IF \/ Mag(b.re) = Inf
     \/ (Mag(b.im) # Inf /\ (IsZero(b.im) \/
           (~IsZero(b.re) /\ b.re.e >= b.im.e)))
    THEN LET ratio == CDiv(b.im, b.re)
             denom == SAdd(b.re, SMul(b.im, ratio))
         IN Complex(CDiv(SAdd(One, SMul(Zero, ratio)), denom),
                    CDiv(SSub(Zero, SMul(One, ratio)), denom))
  ELSE LET ratio == CDiv(b.re, b.im)
           denom == SAdd(SMul(b.re, ratio), b.im)
       IN Complex(CDiv(SAdd(SMul(One, ratio), Zero), denom),
                  CDiv(SSub(SMul(Zero, ratio), One), denom))

\* 1 / z for a complex z; ZDE when z == 0.
complex_reciprocal(z) ==
  Local(z, LAMBDA b :
    IF b.re.t = "nan" \/ b.im.t = "nan" THEN Complex(NaN, NaN)
    ELSE IF IsZero(b.re) /\ IsZero(b.im) THEN Complex(ZDE, ZDE)
    ELSE c_quot_one(b))

\* a + b for complex a, b.
complex_add(a, b) == Complex(SAdd(a.re, b.re), SAdd(a.im, b.im))

\* abs(z): math.hypot of the parts.
complex_abs(z) == hypot(z.re, z.im)

(***************************************************************************)
(* Outcomes of a call.                                                     *)
(***************************************************************************)
NoResult == [component |-> None_, reactance |-> None_, omega |-> None_]
Triple(c, r, w) == [component |-> c, reactance |-> r, omega |-> w]

\* cause is the message of the exception a re-raised exception wraps.
Pending == [kind |-> "pending", exc |-> "", msg |-> "", cause |-> ""]
Returned == [kind |-> "return", exc |-> "", msg |-> "", cause |-> ""]
Raise(exc, msg) == [kind |-> "raise", exc |-> exc, msg |-> msg, cause |-> ""]
ValueError(msg) == Raise("ValueError", msg)

(***************************************************************************)
(* calculate_derived_reactance_params                                      *)
(***************************************************************************)
\* DeriveValidation without the capacitance check of lines 58-59.
DeriveValidation_NoCapacitanceCheck(component_val, reactance_val, omega, param_type) ==
  IF ~IsNone(component_val) /\ IsNegative(component_val)
    THEN "component cannot be negative."
  ELSE IF ~IsNone(reactance_val) /\ IsNegative(reactance_val)
    THEN "Reactance magnitude cannot be negative."
  ELSE IF ~IsNone(omega) /\ IsNegative(omega)
    THEN "Angular frequency (omega) cannot be negative."
  ELSE ""

\* Lines 52-59: the message of the first failing precondition, "" if none.
DeriveValidation(component_val, reactance_val, omega, param_type) ==
  IF ~IsNone(component_val) /\ IsNegative(component_val)
    THEN "component cannot be negative."
  ELSE IF ~IsNone(reactance_val) /\ IsNegative(reactance_val)
    THEN "Reactance magnitude cannot be negative."
  ELSE IF ~IsNone(omega) /\ IsNegative(omega)
    THEN "Angular frequency (omega) cannot be negative."
  ELSE IF param_type = "C" /\ ~IsNone(component_val)
          /\ IsNonPositive(component_val)
    THEN "Capacitance (C) must be positive."
  ELSE ""

\* Line 61.
inputs_provided(component_val, reactance_val, omega) ==
  Cardinality({i \in 1..3 :
     ~IsNone(<<component_val, reactance_val, omega>>[i])})

\* The value of a branch: the derived triple, or the error it raises.
Derived(c, r, w) == [err |-> "", component |-> c, reactance |-> r, omega |-> w]
DeriveFail(msg) ==
  [err |-> msg, component |-> None_, reactance |-> None_, omega |-> None_]

\* DeriveReactance using the inductor's product for a capacitor too.
DeriveReactance_CapacitorProduct(component_val, omega, param_type) ==
  IF omega = Zero
    THEN Derived(component_val, IF param_type = "L" THEN Zero ELSE Inf, omega)
  ELSE Derived(component_val, Mul(omega, component_val), omega)

\* Lines 70-78: the reactance is missing.
DeriveReactance(component_val, omega, param_type) ==
  IF omega = Zero
    THEN Derived(component_val, IF param_type = "L" THEN Zero ELSE Inf, omega)
  ELSE IF param_type = "L"
    THEN Derived(component_val, Mul(omega, component_val), omega)
  ELSE IF component_val = Zero
    THEN DeriveFail("Capacitance cannot be zero.")
  ELSE Derived(component_val, Div(One, Mul(omega, component_val)), omega)

\* DeriveComponent without the special cases of omega == 0.
DeriveComponent_NoDCCase(reactance_val, omega, param_type) ==
  IF param_type = "L"
    THEN Derived(Div(reactance_val, omega), reactance_val, omega)
  ELSE IF reactance_val = Zero
    THEN DeriveFail("Cannot determine C if X_C is 0.")
  ELSE Derived(Div(One, Mul(omega, reactance_val)), reactance_val, omega)

\* Lines 80-104: the component is missing.
DeriveComponent(reactance_val, omega, param_type) ==
  IF omega = Zero
    THEN IF param_type = "L"
           THEN IF reactance_val = Zero
                  THEN Derived(None_, reactance_val, omega)
                  ELSE DeriveFail("Inconsistency: X_L must be 0 if frequency is 0 Hz.")
           ELSE DeriveFail("Cannot determine C from X_C if frequency is 0 Hz.")
  ELSE IF param_type = "L"
    THEN Derived(Div(reactance_val, omega), reactance_val, omega)
  ELSE IF reactance_val = Zero
    THEN DeriveFail("Cannot determine C if X_C is 0.")
  ELSE Derived(Div(One, Mul(omega, reactance_val)), reactance_val, omega)

\* DeriveOmega using the inductor's quotient for a capacitor too.
DeriveOmega_InductorQuotient(component_val, reactance_val, param_type) ==
  IF component_val = Zero
    THEN IF reactance_val = Zero
           THEN Derived(component_val, reactance_val, None_)
           ELSE DeriveFail("Cannot calculate frequency from X_L if L is 0.")
  ELSE Derived(component_val, reactance_val,
               Div(reactance_val, component_val))

\* Lines 106-127: omega is missing.
DeriveOmega(component_val, reactance_val, param_type) ==
  IF param_type = "L"
    THEN IF component_val = Zero
           THEN IF reactance_val = Zero
                  THEN Derived(component_val, reactance_val, None_)
                  ELSE DeriveFail("Cannot calculate frequency from X_L if L is 0.")
           ELSE Derived(component_val, reactance_val,
                        Div(reactance_val, component_val))
  ELSE IF IsNonPositive(component_val)
    THEN DeriveFail("Capacitance must be positive.")
  ELSE IF reactance_val = Zero
    THEN DeriveFail("Cannot calculate frequency if X_C is 0.")
  ELSE IF reactance_val = Inf
    THEN Derived(component_val, reactance_val, Zero)
  ELSE Derived(component_val, reactance_val,
               Div(One, Mul(component_val, reactance_val)))

\* Lines 65-130: the try block.  A ZeroDivisionError raised inside it is
\* turned into the "Calculation error" ValueError.
DeriveMissing(component_val, reactance_val, omega, param_type) ==
  LET d ==
        IF ~IsNone(omega) /\ ~IsNone(component_val) /\ IsNone(reactance_val)
          THEN DeriveReactance(component_val, omega, param_type)
        ELSE IF ~IsNone(omega) /\ ~IsNone(reactance_val) /\ IsNone(component_val)
          THEN DeriveComponent(reactance_val, omega, param_type)
        ELSE IF ~IsNone(component_val) /\ ~IsNone(reactance_val) /\ IsNone(omega)
          THEN DeriveOmega(component_val, reactance_val, param_type)
        ELSE Derived(component_val, reactance_val, omega)
  IN IF d.component = ZDE \/ d.reactance = ZDE \/ d.omega = ZDE
       THEN DeriveFail("Calculation error: Division by zero occurred.")
       ELSE d

\* expected_reactance without the capacitor's DC limit: 0 for both kinds.
expected_reactance_NoOpenCircuit(c, w, param_type) ==
  IF param_type = "C" /\ (IsNone(c) \/ IsNonPositive(c)) THEN None_
  ELSE IF param_type = "L" /\ IsNone(c) THEN None_
  ELSE IF w = Zero THEN Zero
  ELSE IF param_type = "L" THEN Mul(w, c)
  ELSE Div(One, Mul(w, c))

\* Lines 135-145: the reactance recomputed from component and omega; None_
\* when the check is skipped, ZDE when 1.0 / (w * c) divides by zero.
expected_reactance(c, w, param_type) ==
  IF param_type = "C" /\ (IsNone(c) \/ IsNonPositive(c)) THEN None_
  ELSE IF param_type = "L" /\ IsNone(c) THEN None_
  ELSE IF w = Zero THEN (IF param_type = "L" THEN Zero ELSE Inf)
  ELSE IF param_type = "L" THEN Mul(w, c)
  ELSE Div(One, Mul(w, c))

\* Lines 148-158.
consistent(r, expected) ==
  LET r_is_finite == ~isinf(r)
      exp_is_finite == ~isinf(expected)
  IN IF r_is_finite # exp_is_finite THEN FALSE
     ELSE IF ~r_is_finite THEN TRUE
     ELSE isclose(r, expected)

\* Lines 132-172: the outcome of the post-validation of the final triple.
ConsistencyCheck(c, r, w, param_type) ==
  IF IsNone(c) \/ IsNone(r) \/ IsNone(w) THEN Returned
  ELSE LET expected == expected_reactance(c, w, param_type)
       IN IF expected = ZDE
            THEN Raise("ZeroDivisionError", "float division by zero")
          ELSE IF IsNone(expected) THEN Returned
          ELSE IF consistent(r, expected) THEN Returned
          ELSE ValueError("Inconsistent input")

\* Lines 10-174: the whole function, as [out, component, reactance, omega].
Outcome(out, c, r, w) ==
  [out |-> out, component |-> c, reactance |-> r, omega |-> w]

calculate_derived_reactance_params(component_val, reactance_val, omega, param_type) ==
  LET v == DeriveValidation(component_val, reactance_val, omega, param_type)
  IN IF v # "" THEN Outcome(ValueError(v), None_, None_, None_)
     ELSE IF inputs_provided(component_val, reactance_val, omega) < 2
       THEN Outcome(Returned, component_val, reactance_val, omega)
     ELSE LET d == DeriveMissing(component_val, reactance_val, omega,
                                 param_type)
          IN IF d.err # "" THEN Outcome(ValueError(d.err), None_, None_, None_)
             ELSE LET k == ConsistencyCheck(d.component, d.reactance, d.omega,
                                            param_type)
                  IN IF k.kind = "raise"
                       THEN Outcome(k, None_, None_, None_)
                       ELSE Outcome(Returned, d.component, d.reactance, d.omega)

(***************************************************************************)
(* State.  The core is a library of pure functions: a behaviour is one     *)
(* call, which runs through the phases of the called function.             *)
(***************************************************************************)
VARIABLES
  pc,       \* position of the call, "done" once it returned or raised
  fn,       \* the function called
  args,     \* its arguments
  locals,   \* derived_* (deriver) or final_* (series solver) locals
  outcome,  \* Pending, Returned or the exception raised
  ret,      \* the tuple returned by calculate_derived_reactance_params
  results,  \* the mapping returned by a solver
  trace,    \* the phases the running call has entered, in order
  caller    \* the program that made the call: NoCaller, the CLI or the GUI

vars == <<pc, fn, args, locals, outcome, ret, results, trace, caller>>

\* The function is called directly.
NoCaller == [program |-> ""]

NoArgs ==
  [V_rms |-> None_, R |-> None_, component_val |-> None_,
   reactance_val |-> None_, f |-> None_, omega |-> None_,
   L |-> None_, C |-> None_, kind |-> ""]

NoLocals == [component |-> None_, reactance |-> None_, omega |-> None_,
             f |-> None_]

NoResults ==
  [V_rms |-> None_, R |-> None_, f |-> None_, omega |-> None_,
   component |-> None_, L |-> None_, C |-> None_,
   X |-> None_, X_L |-> None_, X_C |-> None_,
   Z |-> None_, phi |-> None_, I_rms |-> None_, I_peak |-> None_,
   V_rms_R |-> None_, V_rms_X |-> None_, V_rms_L |-> None_,
   V_rms_C |-> None_, V_peak |-> None_,
   I_rms_R |-> None_, I_rms_L |-> None_, I_rms_C |-> None_,
   _input_component |-> None_, _input_reactance |-> None_,
   _input_f |-> None_]

\* Finite positive arguments: the ends of the float range, a value within
\* the absolute tolerance of 0.0, and the values around 1.
Exps == {-EMin, AbsTolExp, AbsTolExp + 1, -1, 0, 1, 2, EMax}
NonNegFloats == {Zero, Inf} \cup {Pos(e) : e \in Exps}
OptFloats == NonNegFloats \cup {Neg, None_}
\* Arguments that are floats, never None.
Floats == {Neg, Zero, One, Inf}
\* Voltages of the series solver: also the smallest positive double, whose
\* quotient by an impedance above 1 underflows.
Voltages == Floats \cup {Pos(-EMin)}
\* TWO_PI^-1 is the frequency whose omega is 1: with L = C = 1 the series RLC
\* circuit is at resonance.
RLCFloats == {Neg, Zero, Pos(-EMin), Pos(-1), One, Pos(EMax), Inf}

(***************************************************************************)
(* Calls of calculate_derived_reactance_params.                            *)
(***************************************************************************)
\* A caller calls the deriver with any arguments.
InitDerive ==
  /\ pc = "d_validate"
  /\ fn = "derive"
  /\ \E c \in OptFloats, r \in OptFloats, w \in OptFloats,
        param_type \in {"L", "C"} :
          args = [NoArgs EXCEPT !.component_val = c, !.reactance_val = r,
                                !.omega = w, !.kind = param_type]
  /\ locals = NoLocals
  /\ outcome = Pending
  /\ ret = NoResult
  /\ results = NoResults
  /\ trace = <<>>
  /\ caller = NoCaller

\* Lines 52-59.
DeriveValidate ==
  /\ pc = "d_validate"
  /\ trace' = Append(trace, "validate")
  /\ LET v == DeriveValidation(args.component_val, args.reactance_val,
                               args.omega, args.kind)
     IN IF v # ""
          THEN /\ outcome' = ValueError(v)
               /\ pc' = "done"
          ELSE /\ outcome' = outcome
               /\ pc' = "d_count"
  /\ UNCHANGED <<fn, args, locals, ret, results, caller>>

\* DeriveCount returning an empty triple instead of the arguments.
DeriveCount_DropsArguments ==
  /\ pc = "d_count"
  /\ trace' = Append(trace, "count")
  /\ IF inputs_provided(args.component_val, args.reactance_val, args.omega) < 2
       THEN /\ ret' = NoResult
            /\ outcome' = Returned
            /\ pc' = "done"
            /\ locals' = locals
       ELSE /\ locals' = [NoLocals EXCEPT !.component = args.component_val,
                                          !.reactance = args.reactance_val,
                                          !.omega = args.omega]
            /\ pc' = "d_derive"
            /\ UNCHANGED <<ret, outcome>>
  /\ UNCHANGED <<fn, args, results, caller>>

\* Lines 61-67.
DeriveCount ==
  /\ pc = "d_count"
  /\ trace' = Append(trace, "count")
  /\ IF inputs_provided(args.component_val, args.reactance_val, args.omega) < 2
       THEN /\ ret' = Triple(args.component_val, args.reactance_val,
                             args.omega)
            /\ outcome' = Returned
            /\ pc' = "done"
            /\ locals' = locals
       ELSE /\ locals' = [NoLocals EXCEPT !.component = args.component_val,
                                          !.reactance = args.reactance_val,
                                          !.omega = args.omega]
            /\ pc' = "d_derive"
            /\ UNCHANGED <<ret, outcome>>
  /\ UNCHANGED <<fn, args, results, caller>>

\* Lines 69-130.
DeriveStep ==
  /\ pc = "d_derive"
  /\ trace' = Append(trace, "derive")
  /\ LET d == DeriveMissing(args.component_val, args.reactance_val,
                            args.omega, args.kind)
     IN IF d.err # ""
          THEN /\ outcome' = ValueError(d.err)
               /\ pc' = "done"
               /\ locals' = locals
          ELSE /\ locals' = [NoLocals EXCEPT !.component = d.component,
                                             !.reactance = d.reactance,
                                             !.omega = d.omega]
               /\ pc' = "d_check"
               /\ outcome' = outcome
  /\ UNCHANGED <<fn, args, ret, results, caller>>

\* Lines 132-174.
DeriveCheck ==
  /\ pc = "d_check"
  /\ trace' = Append(trace, "check")
  /\ LET k == ConsistencyCheck(locals.component, locals.reactance,
                               locals.omega, args.kind)
     IN /\ outcome' = k
        /\ ret' = IF k.kind = "return"
                    THEN Triple(locals.component, locals.reactance,
                                locals.omega)
                    ELSE ret
  /\ pc' = "done"
  /\ UNCHANGED <<fn, args, locals, results, caller>>

NextDerive ==
  \/ DeriveValidate
  \/ DeriveCount
  \/ DeriveStep
  \/ DeriveCheck

SpecDerive == InitDerive /\ [][NextDerive]_vars

(***************************************************************************)
(* Calls of calculate_series_ac_circuit.                                   *)
(***************************************************************************)
\* SeriesValidation without the frequency check of lines 230-231.
SeriesValidation_NoFrequencyCheck(V_rms, R, f) ==
  IF IsNegative(V_rms) THEN "V RMS must be non-negative."
  ELSE IF IsNegative(R) THEN "Resistance (R) must be non-negative."
  ELSE ""

\* Lines 226-231: the message of the first failing precondition.
SeriesValidation(V_rms, R, f) ==
  IF IsNegative(V_rms) THEN "V RMS must be non-negative."
  ELSE IF IsNegative(R) THEN "Resistance (R) must be non-negative."
  ELSE IF ~IsNone(f) /\ IsNegative(f) THEN "Frequency (f) must be non-negative."
  ELSE ""

\* Line 233.
ParamType(circuit_type) == IF circuit_type = "RL" THEN "L" ELSE "C"

\* Line 234.
OmegaOf(f) == IF ~IsNone(f) THEN Mul(TWO_PI, f) ELSE None_

\* is_dc_open_circuit without the test of the circuit type.
is_dc_open_circuit_AnyKind(circuit_type, final_reactance) ==
  final_reactance = Inf

\* Line 243.
is_dc_open_circuit(circuit_type, final_reactance) ==
  circuit_type = "RC" /\ final_reactance = Inf

\* Line 244.
Insufficient(circuit_type, final_reactance, final_omega) ==
  \/ IsNone(final_reactance)
  \/ (IsNone(final_omega)
       /\ ~is_dc_open_circuit(circuit_type, final_reactance))

\* A caller calls the series solver with any arguments.
InitSeries ==
  /\ pc = "s_validate"
  /\ fn = "series"
  /\ \E V_rms \in Voltages, R \in Floats,
        c \in OptFloats, r \in OptFloats, f \in OptFloats,
        circuit_type \in {"RL", "RC"} :
          args = [NoArgs EXCEPT !.V_rms = V_rms, !.R = R,
                                !.component_val = c, !.reactance_val = r,
                                !.f = f, !.kind = circuit_type]
  /\ locals = NoLocals
  /\ outcome = Pending
  /\ ret = NoResult
  /\ results = NoResults
  /\ trace = <<>>
  /\ caller = NoCaller

\* Lines 226-231.
SeriesValidate ==
  /\ pc = "s_validate"
  /\ trace' = Append(trace, "validate")
  /\ LET v == SeriesValidation(args.V_rms, args.R, args.f)
     IN IF v # ""
          THEN /\ outcome' = ValueError(v)
               /\ pc' = "done"
          ELSE /\ outcome' = outcome
               /\ pc' = "s_derive"
  /\ UNCHANGED <<fn, args, locals, ret, results, caller>>

\* Lines 233-241: a ValueError of the deriver is re-raised with the circuit
\* type added; any other exception propagates unchanged.
SeriesDerive ==
  /\ pc = "s_derive"
  /\ trace' = Append(trace, "derive")
  /\ LET d == calculate_derived_reactance_params(
                 args.component_val, args.reactance_val, OmegaOf(args.f),
                 ParamType(args.kind))
     IN IF d.out.kind = "raise"
          THEN /\ outcome' = IF d.out.exc = "ValueError"
                               THEN [ValueError("Parameter Derivation Error")
                                       EXCEPT !.cause = d.out.msg]
                               ELSE d.out
               /\ pc' = "done"
               /\ locals' = locals
          ELSE /\ locals' = [NoLocals EXCEPT !.component = d.component,
                                             !.reactance = d.reactance,
                                             !.omega = d.omega]
               /\ pc' = "s_sufficient"
               /\ outcome' = outcome
  /\ UNCHANGED <<fn, args, ret, results, caller>>

\* SeriesSufficiency leaving f and omega undetermined in the DC
\* open-circuit case.
SeriesSufficiency_NoDCFrequency ==
  /\ pc = "s_sufficient"
  /\ trace' = Append(trace, "sufficient")
  /\ IF Insufficient(args.kind, locals.reactance, locals.omega)
       THEN /\ outcome' = ValueError("Insufficient parameters")
            /\ pc' = "done"
            /\ locals' = locals
       ELSE /\ locals' =
                 IF ~IsNone(locals.omega)
                   THEN [locals EXCEPT !.f = Div(locals.omega, TWO_PI)]
                 ELSE [locals EXCEPT !.f = None_]
            /\ pc' = "s_solve"
            /\ outcome' = outcome
  /\ UNCHANGED <<fn, args, ret, results, caller>>

\* Lines 243-256.
SeriesSufficiency ==
  /\ pc = "s_sufficient"
  /\ trace' = Append(trace, "sufficient")
  /\ IF Insufficient(args.kind, locals.reactance, locals.omega)
       THEN /\ outcome' = ValueError("Insufficient parameters")
            /\ pc' = "done"
            /\ locals' = locals
       ELSE /\ locals' =
                 IF ~IsNone(locals.omega)
                   THEN [locals EXCEPT !.f = Div(locals.omega, TWO_PI)]
                 ELSE IF is_dc_open_circuit(args.kind, locals.reactance)
                   THEN [locals EXCEPT !.f = Zero, !.omega = Zero]
                 ELSE [locals EXCEPT !.f = None_]
            /\ pc' = "s_solve"
            /\ outcome' = outcome
  /\ UNCHANGED <<fn, args, ret, results, caller>>

\* SeriesDrop as the plain product, also for an infinite current.
SeriesDrop_AlwaysProduct(I_rms, x, V_rms) == Mul(I_rms, x)

\* Lines 283-297: the voltage drop across an element of magnitude x.
SeriesDrop(I_rms, x, V_rms) ==
  IF I_rms # Inf THEN Mul(I_rms, x)
  ELSE IF IsPositive(x) /\ IsPositive(V_rms) THEN Inf ELSE Zero

\* SeriesImpedance without the open-circuit case of lines 264-269.
SeriesImpedance_NoOpenCircuit(V_rms, R, final_reactance, circuit_type) ==
  LET reactance_signed == IF circuit_type = "RC" THEN Minus(final_reactance)
                          ELSE final_reactance
  IN IF R = Zero /\ final_reactance = Zero
       THEN [Z |-> Zero, phi |-> Deg(0),
             I_rms |-> IF IsPositive(V_rms) THEN Inf ELSE Zero,
             V_rms_R |-> Zero, V_rms_X |-> Zero]
     ELSE LET Z == hypot(R, final_reactance)
              I_rms == IF Z = Zero
                         THEN (IF IsPositive(V_rms) THEN Inf ELSE Zero)
                         ELSE Div(V_rms, Z)
          IN [Z |-> Z, phi |-> atan2_degrees(reactance_signed, R),
              I_rms |-> I_rms,
              V_rms_R |-> SeriesDrop(I_rms, R, V_rms),
              V_rms_X |-> SeriesDrop(I_rms, final_reactance, V_rms)]

\* SeriesImpedance with no current through a short circuit.
SeriesImpedance_NoShortCurrent(V_rms, R, final_reactance, circuit_type) ==
  LET reactance_signed == IF circuit_type = "RC" THEN Minus(final_reactance)
                          ELSE final_reactance
  IN IF final_reactance = Inf
       THEN [Z |-> Inf, phi |-> Deg(-90), I_rms |-> Zero,
             V_rms_R |-> Zero, V_rms_X |-> V_rms]
     ELSE IF R = Zero /\ final_reactance = Zero
       THEN [Z |-> Zero, phi |-> Deg(0),
             I_rms |-> Zero,
             V_rms_R |-> Zero, V_rms_X |-> Zero]
     ELSE LET Z == hypot(R, final_reactance)
              I_rms == IF Z = Zero
                         THEN (IF IsPositive(V_rms) THEN Inf ELSE Zero)
                         ELSE Div(V_rms, Z)
          IN [Z |-> Z, phi |-> atan2_degrees(reactance_signed, R),
              I_rms |-> I_rms,
              V_rms_R |-> SeriesDrop(I_rms, R, V_rms),
              V_rms_X |-> SeriesDrop(I_rms, final_reactance, V_rms)]

\* Lines 262-297: impedance, phase, current and voltage drops.
SeriesImpedance(V_rms, R, final_reactance, circuit_type) ==
  LET reactance_signed == IF circuit_type = "RC" THEN Minus(final_reactance)
                          ELSE final_reactance
  IN IF final_reactance = Inf
       THEN [Z |-> Inf, phi |-> Deg(-90), I_rms |-> Zero,
             V_rms_R |-> Zero, V_rms_X |-> V_rms]
     ELSE IF R = Zero /\ final_reactance = Zero
       THEN [Z |-> Zero, phi |-> Deg(0),
             I_rms |-> IF IsPositive(V_rms) THEN Inf ELSE Zero,
             V_rms_R |-> Zero, V_rms_X |-> Zero]
     ELSE LET Z == hypot(R, final_reactance)
              I_rms == IF Z = Zero
                         THEN (IF IsPositive(V_rms) THEN Inf ELSE Zero)
                         ELSE Div(V_rms, Z)
          IN [Z |-> Z, phi |-> atan2_degrees(reactance_signed, R),
              I_rms |-> I_rms,
              V_rms_R |-> SeriesDrop(I_rms, R, V_rms),
              V_rms_X |-> SeriesDrop(I_rms, final_reactance, V_rms)]

\* Lines 300, 370 and 433: the values I_peak can take for the current x.
PeakOf(x) == IF x # Inf THEN TimesSqrt2(x) ELSE {Inf}

\* Lines 299-300, 369-370 and 432-433: the mapping r with its peak values.
WithPeaks(r) ==
  {[r EXCEPT !.I_peak = i, !.V_peak = v] :
     i \in PeakOf(r.I_rms), v \in TimesSqrt2(r.V_rms)}

\* Lines 258-323: the impedance arithmetic and the result mapping.
SeriesSolve ==
  /\ pc = "s_solve"
  /\ trace' = Append(trace, "solve")
  /\ IF IsNone(locals.reactance)
       THEN /\ outcome' = ValueError("Internal Error: Reactance could not be determined.")
            /\ results' = results
       ELSE /\ outcome' = Returned
            /\ results' \in
                 LET z == SeriesImpedance(args.V_rms, args.R,
                                          locals.reactance, args.kind)
                 IN
                 WithPeaks([NoResults EXCEPT
                    !.Z = z.Z, !.phi = z.phi, !.I_rms = z.I_rms,
                    !.V_rms_R = z.V_rms_R, !.V_rms_X = z.V_rms_X,
                    !.V_rms = args.V_rms, !.R = args.R,
                    !.f = locals.f, !.omega = locals.omega,
                    !.component = locals.component,
                    !.L = IF args.kind = "RL" THEN locals.component ELSE None_,
                    !.C = IF args.kind = "RL" THEN None_ ELSE locals.component,
                    !.X_L = IF args.kind = "RL" THEN locals.reactance ELSE None_,
                    !.X_C = IF args.kind = "RL" THEN None_ ELSE locals.reactance,
                    !.X = locals.reactance,
                    !._input_component = args.component_val,
                    !._input_reactance = args.reactance_val,
                    !._input_f = args.f])
  /\ pc' = "done"
  /\ UNCHANGED <<fn, args, locals, ret, caller>>

NextSeries ==
  \/ SeriesValidate
  \/ SeriesDerive
  \/ SeriesSufficiency
  \/ SeriesSolve

SpecSeries == InitSeries /\ [][NextSeries]_vars

(***************************************************************************)
(* Calls of calculate_series_rlc_circuit and                               *)
(* calculate_parallel_rlc_circuit.                                         *)
(***************************************************************************)
\* RLCValidation without the positivity check of L, C and f.
RLCValidation_NoPositiveCheck(V_rms, R, L, C, f) ==
  IF \E x \in {V_rms, R, L, C, f} : IsNegative(x)
    THEN "All parameters must be non-negative."
  ELSE ""

\* Lines 349-354 and 402-407: the message of the first failing precondition.
RLCValidation(V_rms, R, L, C, f) ==
  IF \E x \in {V_rms, R, L, C, f} : IsNegative(x)
    THEN "All parameters must be non-negative."
  ELSE IF \E x \in {L, C, f} : IsNonPositive(x)
    THEN "Inductance, capacitance and frequency must be greater than zero for RLC analysis."
  ELSE ""

\* A caller calls one of the RLC solvers with any float arguments.
InitRLC ==
  /\ pc = "r_validate"
  /\ fn \in {"series_rlc", "parallel_rlc"}
  /\ \E V_rms \in RLCFloats, R \in RLCFloats, L \in RLCFloats,
        C \in RLCFloats, f \in RLCFloats :
          args = [NoArgs EXCEPT !.V_rms = V_rms, !.R = R, !.L = L, !.C = C,
                                !.f = f]
  /\ locals = NoLocals
  /\ outcome = Pending
  /\ ret = NoResult
  /\ results = NoResults
  /\ trace = <<>>
  /\ caller = NoCaller

\* Lines 349-354 and 402-407.
RLCValidate ==
  /\ pc = "r_validate"
  /\ trace' = Append(trace, "validate")
  /\ LET v == RLCValidation(args.V_rms, args.R, args.L, args.C, args.f)
     IN IF v # ""
          THEN /\ outcome' = ValueError(v)
               /\ pc' = "done"
          ELSE /\ outcome' = outcome
               /\ pc' = "r_solve"
  /\ UNCHANGED <<fn, args, locals, ret, results, caller>>

\* Lines 362-365 and 423-426: the source current.
SourceCurrent(V_rms, Z) ==
  IF Z = Zero THEN (IF IsPositive(V_rms) THEN Inf ELSE Zero)
  ELSE Div(V_rms, Z)

\* RLCDrop as the plain product, also for an infinite current.
RLCDrop_AlwaysProduct(I_rms, x) == Mul(I_rms, x)

\* Lines 366-368: the voltage across a series element of magnitude x.
RLCDrop(I_rms, x) == IF I_rms # Inf THEN Mul(I_rms, x) ELSE Inf

\* Lines 356-368: the quantities of the series RLC circuit but the peak
\* values; X is ZDE when 1.0 / (omega * C) raises a ZeroDivisionError.
SeriesRLCSolution(V_rms, R, L, C, f) ==
  LET omega == Mul(TWO_PI, f)
      X_L == Mul(omega, L)
      X_C == Div(One, Mul(omega, C))
  IN IF X_C = ZDE
       THEN [NoResults EXCEPT !.X = ZDE]
       ELSE Local(SSub(X_L, X_C), LAMBDA X :
            Local(SourceCurrent(V_rms, hypot(R, X)), LAMBDA I_rms :
              [NoResults EXCEPT
                 !.V_rms = V_rms, !.R = R, !.L = L, !.C = C, !.f = f,
                 !.omega = omega, !.X_L = X_L, !.X_C = X_C, !.X = X,
                 !.Z = hypot(R, X), !.phi = atan2_degrees(X, R),
                 !.I_rms = I_rms,
                 !.V_rms_R = RLCDrop(I_rms, R),
                 !.V_rms_L = RLCDrop(I_rms, X_L),
                 !.V_rms_C = RLCDrop(I_rms, X_C)]))

\* Lines 429-431: the current of a branch of impedance magnitude x.
BranchCurrent(V_rms, x) == IF x # Zero THEN Div(V_rms, x) ELSE Inf

\* Lines 412-421: the total impedance of the three parallel branches; its
\* parts are ZDE when a branch impedance is 0 (1 / Z_branch raises).
ParallelImpedance(R, X_L, X_C) ==
  LET Y_R == complex_reciprocal(Complex(R, Zero))
      Y_L == complex_reciprocal(Complex(Zero, X_L))
      Y_C == complex_reciprocal(Complex(Zero, Minus(X_C)))
  IN IF ZDE \in {Y_R.re, Y_L.re, Y_C.re} THEN Complex(ZDE, ZDE)
     ELSE Local(complex_add(complex_add(Y_R, Y_L), Y_C), LAMBDA Y_total :
            IF IsZero(Y_total.re) /\ IsZero(Y_total.im)
              THEN Complex(Inf, Zero)
              ELSE complex_reciprocal(Y_total))

\* Lines 409-431: the quantities of the parallel RLC circuit but the peak
\* values; Z is ZDE when 1 / Z_branch raises a ZeroDivisionError, X is ZDE
\* when 1.0 / (omega * C) does.
ParallelRLCSolution(V_rms, R, L, C, f) ==
  LET omega == Mul(TWO_PI, f)
      X_L == Mul(omega, L)
      X_C == Div(One, Mul(omega, C))
  IN IF X_C = ZDE
       THEN [NoResults EXCEPT !.X = ZDE]
     ELSE Local(ParallelImpedance(R, X_L, X_C), LAMBDA Z_total :
       IF Z_total.re = ZDE
         THEN [NoResults EXCEPT !.Z = ZDE]
       ELSE Local(SourceCurrent(V_rms, complex_abs(Z_total)), LAMBDA I_rms :
         [NoResults EXCEPT
            !.V_rms = V_rms, !.R = R, !.L = L, !.C = C, !.f = f,
            !.omega = omega, !.X_L = X_L, !.X_C = X_C,
            !.Z = complex_abs(Z_total),
            !.phi = atan2_degrees(Z_total.im, Z_total.re),
            !.I_rms = I_rms,
            !.I_rms_R = BranchCurrent(V_rms, R),
            !.I_rms_L = BranchCurrent(V_rms, X_L),
            !.I_rms_C = BranchCurrent(V_rms, X_C)]))

\* Lines 356-390 and 409-452.  Neither solver catches the ZeroDivisionError
\* of 1.0 / (omega * C), nor the parallel solver the one of 1 / Z_branch.
RLCSolve ==
  /\ pc = "r_solve"
  /\ trace' = Append(trace, "solve")
  /\ \E r \in {IF fn = "series_rlc"
                  THEN SeriesRLCSolution(args.V_rms, args.R, args.L, args.C,
                                         args.f)
                  ELSE ParallelRLCSolution(args.V_rms, args.R, args.L, args.C,
                                           args.f)} :
        IF r.X = ZDE
          THEN /\ outcome' = Raise("ZeroDivisionError", "float division by zero")
               /\ results' = results
        ELSE IF r.Z = ZDE
          THEN /\ outcome' = Raise("ZeroDivisionError", "complex division by zero")
               /\ results' = results
        ELSE /\ outcome' = Returned
             /\ results' \in WithPeaks(r)
  /\ pc' = "done"
  /\ UNCHANGED <<fn, args, locals, ret, caller>>

NextRLC ==
  \/ RLCValidate
  \/ RLCSolve

SpecRLC == InitRLC /\ [][NextRLC]_vars

(***************************************************************************)
(* The three solvers together.                                             *)
(***************************************************************************)
InitSolvers == InitSeries \/ InitRLC
NextSolvers == NextSeries \/ NextRLC
SpecSolvers == InitSolvers /\ [][NextSolvers]_vars

(***************************************************************************)
(* The four functions of the core together.                                *)
(***************************************************************************)
InitCore == InitDerive \/ InitSolvers
NextCore == NextDerive \/ NextSolvers
SpecCore == InitCore /\ [][NextCore]_vars

(***************************************************************************)
(* Properties.                                                             *)
(***************************************************************************)
Done == pc = "done"
Failed == Done /\ outcome.kind = "raise"
Succeeded == Done /\ outcome.kind = "return"

\* The messages of the precondition failures.
SolverValidationMessages ==
  {"V RMS must be non-negative.", "Resistance (R) must be non-negative.",
   "Frequency (f) must be non-negative.",
   "All parameters must be non-negative."}
DeriveValidationMessages ==
  {"component cannot be negative.", "Reactance magnitude cannot be negative.",
   "Angular frequency (omega) cannot be negative.",
   "Capacitance (C) must be positive."}

\* C1: a solver call with a negative V_rms, R or frequency, whatever its
\* other arguments, ends right after the validation phase with a ValueError
\* of a precondition: it never enters the derivation or the impedance
\* arithmetic and returns no result.
C1_NegativeInputFailsFirst ==
  (/\ fn \in {"series", "series_rlc", "parallel_rlc"}
   /\ IsNegative(args.V_rms) \/ IsNegative(args.R) \/ IsNegative(args.f)
   /\ trace # <<>>)
  => /\ Failed
     /\ outcome.exc = "ValueError"
     /\ outcome.msg \in SolverValidationMessages
     /\ trace = <<"validate">>
     /\ results = NoResults

\* A series RL/RC call with a negative frequency and no component and no
\* reactance has failed.
C1_Witness ==
  /\ fn = "series" /\ Failed
  /\ IsNegative(args.f) /\ ~IsNegative(args.V_rms) /\ ~IsNegative(args.R)
  /\ IsNone(args.component_val) /\ IsNone(args.reactance_val)

\* A supplied value violates a precondition of the deriver.
DeriveInvalid ==
  \/ IsNegative(args.component_val)
  \/ IsNegative(args.reactance_val)
  \/ IsNegative(args.omega)
  \/ (args.kind = "C" /\ args.component_val = Zero)

\* The number of values supplied to the deriver.
Supplied ==
  (IF IsNone(args.component_val) THEN 0 ELSE 1)
  + (IF IsNone(args.reactance_val) THEN 0 ELSE 1)
  + (IF IsNone(args.omega) THEN 0 ELSE 1)

\* C5: a deriver call with a negative supplied value, or with a supplied
\* capacitance <= 0, fails with a validation ValueError right after the
\* validation phase, however many values are supplied, and derives nothing.
C5_InvalidInputRejected ==
  (fn = "derive" /\ DeriveInvalid /\ trace # <<>>)
  => /\ Failed
     /\ outcome.exc = "ValueError"
     /\ outcome.msg \in DeriveValidationMessages
     /\ trace = <<"validate">>
     /\ ret = NoResult

\* A capacitor call supplying only a zero capacitance has failed.
C5_Witness ==
  /\ fn = "derive" /\ Failed /\ args.kind = "C"
  /\ args.component_val = Zero
  /\ IsNone(args.reactance_val) /\ IsNone(args.omega)

\* C6: a deriver call supplying fewer than two values, all valid, returns
\* the triple exactly as given.
C6_FewerThanTwoUnchanged ==
  (fn = "derive" /\ Done /\ Supplied < 2 /\ ~DeriveInvalid)
  => /\ outcome.kind = "return"
     /\ ret = Triple(args.component_val, args.reactance_val, args.omega)

\* A call supplying only a reactance has returned.
C6_Witness ==
  /\ fn = "derive" /\ Done /\ Supplied = 1
  /\ IsPositive(args.reactance_val)
  /\ outcome.kind = "return"

\* Fewer than two of (component, reactance, frequency) are supplied to the
\* series solver.
SeriesSupplied ==
  (IF IsNone(args.component_val) THEN 0 ELSE 1)
  + (IF IsNone(args.reactance_val) THEN 0 ELSE 1)
  + (IF IsNone(args.f) THEN 0 ELSE 1)

\* The RC call whose reactance is +Infinity.
RCOpenCase == args.kind = "RC" /\ locals.reactance = Inf

\* C10: the series solver fails with the insufficient-parameters error when
\* the derivation leaves the reactance undetermined, or leaves omega
\* undetermined outside the RC +Infinity case; it computes a result only
\* with both determined.  An RL call with L = 0, X_L = 0 and no frequency,
\* and a call supplying fewer than two of (component, reactance, frequency)
\* other than the RC +Infinity case, fail and return no result.
C10_InsufficientParameters ==
  /\ (/\ fn = "series" /\ Done /\ Len(trace) >= 3
      /\ \/ IsNone(locals.reactance)
         \/ (IsNone(locals.omega) /\ ~RCOpenCase))
     => /\ outcome = ValueError("Insufficient parameters")
        /\ results = NoResults
        /\ trace = <<"validate", "derive", "sufficient">>
  /\ (fn = "series" /\ pc = "s_solve")
     => (~IsNone(locals.reactance) /\ ~IsNone(locals.omega))
  /\ (/\ fn = "series" /\ Done /\ args.kind = "RL"
      /\ ~IsNegative(args.V_rms) /\ ~IsNegative(args.R)
      /\ args.component_val = Zero /\ args.reactance_val = Zero
      /\ IsNone(args.f))
     => outcome = ValueError("Insufficient parameters")
  /\ (/\ fn = "series" /\ Done /\ SeriesSupplied < 2
      /\ ~(args.kind = "RC" /\ args.reactance_val = Inf))
     => (Failed /\ results = NoResults)

\* An RL call supplying only X_L = +Infinity has failed for want of
\* parameters.
C10_Witness ==
  /\ fn = "series" /\ Done /\ args.kind = "RL"
  /\ args.reactance_val = Inf
  /\ IsNone(args.component_val) /\ IsNone(args.f)
  /\ outcome = ValueError("Insufficient parameters")

\* The deriver's errors other than the precondition failures.
ConsistencyError == ValueError("Inconsistent input")
CalculationError == ValueError("Calculation error: Division by zero occurred.")

\* Two of the three values are supplied, all valid.
ReactanceMissing ==
  /\ fn = "derive" /\ ~DeriveInvalid
  /\ ~IsNone(args.component_val) /\ ~IsNone(args.omega)
  /\ IsNone(args.reactance_val)
ComponentMissing ==
  /\ fn = "derive" /\ ~DeriveInvalid
  /\ ~IsNone(args.reactance_val) /\ ~IsNone(args.omega)
  /\ IsNone(args.component_val)
OmegaMissing ==
  /\ fn = "derive" /\ ~DeriveInvalid
  /\ ~IsNone(args.component_val) /\ ~IsNone(args.reactance_val)
  /\ IsNone(args.omega)

ReturnedTriple(c, r, w) == Succeeded /\ ret = Triple(c, r, w)

\* X_L = omega*L and X_C = 1/(omega*C), with the DC limits at omega = 0.
ClosedFormReactance(c, w, param_type) ==
  IF w = Zero THEN (IF param_type = "L" THEN Zero ELSE Inf)
  ELSE IF param_type = "L" THEN Mul(w, c)
  ELSE Div(One, Mul(w, c))

\* C2 as stated: with component and omega supplied and the reactance
\* missing, the call returns them with the closed-form reactance.
C2_AlwaysReturnsReactance ==
  (ReactanceMissing /\ Done)
  => ReturnedTriple(args.component_val,
                    ClosedFormReactance(args.component_val, args.omega,
                                        args.kind),
                    args.omega)

\* C2 amended: the call returns component and omega with the closed-form
\* reactance, except that it fails with a consistency error when
\* omega*component is not a number (inductor, component 0, infinite omega)
\* and with a calculation error when a capacitor's omega*component
\* underflows to 0.
C2_ReturnsReactance ==
  (ReactanceMissing /\ Done)
  => LET x == ClosedFormReactance(args.component_val, args.omega, args.kind)
     IN IF x = NaN
          THEN /\ outcome = ConsistencyError
               /\ args.kind = "L" /\ args.component_val = Zero
               /\ args.omega = Inf
        ELSE IF x = ZDE
          THEN /\ outcome = CalculationError
               /\ args.kind = "C"
               /\ Mul(args.omega, args.component_val) = Zero
        ELSE ReturnedTriple(args.component_val, x, args.omega)

\* A capacitor call with omega > 0 has returned the reciprocal of
\* omega*component.
C2_Witness ==
  /\ ReactanceMissing /\ Succeeded /\ args.kind = "C"
  /\ args.component_val = Pos(1) /\ args.omega = Pos(1)
  /\ ret.reactance = Pos(-2)

InitRoundTrip ==
  /\ pc = "rt_forward"
  /\ fn = "round_trip"
  /\ \E c \in NonNegFloats \cup {Neg}, w \in NonNegFloats \cup {Neg},
        param_type \in {"L", "C"} :
          args = [NoArgs EXCEPT !.component_val = c, !.omega = w,
                                !.kind = param_type]
  /\ locals = NoLocals
  /\ outcome = Pending
  /\ ret = NoResult
  /\ results = NoResults
  /\ trace = <<>>
  /\ caller = NoCaller

\* calculate_derived_reactance_params(component, None, omega, kind).
RoundTripForward ==
  /\ pc = "rt_forward"
  /\ trace' = Append(trace, "forward")
  /\ LET d == calculate_derived_reactance_params(
                 args.component_val, None_, args.omega, args.kind)
     IN IF d.out.kind = "raise"
          THEN /\ outcome' = d.out
               /\ pc' = "done"
               /\ locals' = locals
          ELSE /\ locals' = [NoLocals EXCEPT !.component = d.component,
                                             !.reactance = d.reactance,
                                             !.omega = d.omega]
               /\ pc' = "rt_back"
               /\ outcome' = outcome
  /\ UNCHANGED <<fn, args, ret, results, caller>>

\* calculate_derived_reactance_params(None, reactance, omega, kind).
RoundTripBack ==
  /\ pc = "rt_back"
  /\ trace' = Append(trace, "back")
  /\ LET d == calculate_derived_reactance_params(
                 None_, locals.reactance, args.omega, args.kind)
     IN /\ outcome' = d.out
        /\ ret' = Triple(d.component, d.reactance, d.omega)
  /\ pc' = "done"
  /\ UNCHANGED <<fn, args, locals, results, caller>>

NextRoundTrip ==
  \/ RoundTripForward
  \/ RoundTripBack

SpecRoundTrip == InitRoundTrip /\ [][NextRoundTrip]_vars

\* The recomputed reactance of the claim: as ClosedFormReactance, with the
\* reciprocal of a zero product read as its limit +Infinity.
RecomputedReactance(c, w, param_type) ==
  IF w # Zero /\ param_type = "C" /\ Mul(w, c) = Zero THEN Inf
  ELSE ClosedFormReactance(c, w, param_type)

\* Two infinite values match, a finite and an infinite one never do, two
\* finite ones match within the tolerance.
Matches(r, x) ==
  IF isinf(r) \/ isinf(x) THEN isinf(r) /\ isinf(x) ELSE isclose(r, x)

\* C7: when the deriver reaches its end with component, reactance and omega
\* all populated and the reactance does not match the one recomputed from
\* component and omega, the call fails with the consistency error; so no
\* call returns three populated values that violate the relation.
C7_MismatchFails ==
  (/\ fn = "derive" /\ Done /\ Len(trace) = 4
   /\ ~IsNone(locals.component) /\ ~IsNone(locals.reactance)
   /\ ~IsNone(locals.omega)
   /\ ~Matches(locals.reactance,
               RecomputedReactance(locals.component, locals.omega, args.kind)))
  => outcome = ConsistencyError

\* The defining relation in exact arithmetic, for finite component and
\* omega: X_L = omega*L, X_C = 1/(omega*C), and the DC limits X_L = 0 and
\* X_C = +Infinity at omega = 0.
ExactRelation(c, r, w, param_type) ==
  /\ c.t \in {"zero", "pos"} /\ w.t \in {"zero", "pos"}
  /\ param_type = "C" => c.t = "pos"
  /\ IF w = Zero THEN r = (IF param_type = "L" THEN Zero ELSE Inf)
     ELSE IF c = Zero THEN r = Zero
     ELSE /\ r.t = "pos"
          /\ r.e = (IF param_type = "L" THEN w.e + c.e ELSE 0 - (w.e + c.e))

\* Every non-negative float.
AllFloats == {Zero, Inf} \cup {Pos(e) : e \in (-EMin)..EMax}

\* The triples that complete the two supplied arguments of a call and
\* satisfy the defining relation.
Completions ==
  {t \in {Triple(IF IsNone(args.component_val) THEN x ELSE args.component_val,
                 IF IsNone(args.reactance_val) THEN x ELSE args.reactance_val,
                 IF IsNone(args.omega) THEN x ELSE args.omega) :
            x \in AllFloats} :
     ExactRelation(t.component, t.reactance, t.omega, args.kind)}

\* C8 as stated: a call given two values of a triple that satisfies the
\* defining relation returns the whole triple.
C8_AnyTwoGiveThird ==
  (fn = "derive" /\ Done /\ Supplied = 2 /\ ~DeriveInvalid)
  => \A t \in Completions : ReturnedTriple(t.component, t.reactance, t.omega)

\* The two supplied values determine the withheld one: not a withheld
\* component at omega = 0, nor a withheld omega of an inductor with
\* component 0.
Determined ==
  /\ IsNone(args.component_val) => args.omega # Zero
  /\ (IsNone(args.omega) /\ args.kind = "L") => args.component_val # Zero

\* The reciprocal of x is a finite float.
ReciprocalFinite(x) == x.t = "pos" => Div(One, x) # Inf

\* C8 amended: for finite component and omega, a call given two values of a
\* triple that satisfies the defining relation returns the whole triple,
\* provided the two values determine the third and, for a capacitor, the
\* reciprocal of the withheld value is a finite float.
C8_TwoGiveThird ==
  (fn = "derive" /\ Done /\ Supplied = 2 /\ ~DeriveInvalid /\ Determined)
  => \A t \in Completions :
       (args.kind = "C" =>
          /\ IsNone(args.component_val) => ReciprocalFinite(t.component)
          /\ IsNone(args.reactance_val) => ReciprocalFinite(t.reactance)
          /\ IsNone(args.omega) => ReciprocalFinite(t.omega))
       => ReturnedTriple(t.component, t.reactance, t.omega)

\* A capacitor call given reactance and omega has returned the capacitance
\* of the triple.
C8_Witness ==
  /\ fn = "derive" /\ Succeeded /\ args.kind = "C"
  /\ IsNone(args.component_val)
  /\ args.reactance_val = One /\ args.omega = Pos(1)
  /\ Triple(Pos(-1), One, Pos(1)) \in Completions
  /\ ret.component = Pos(-1)

\* The round trip starts from a valid component and omega > 0.
RoundTripValid ==
  /\ fn = "round_trip"
  /\ IF args.kind = "L" THEN args.component_val.t \in {"zero", "pos", "inf"}
                        ELSE IsPositive(args.component_val)
  /\ IsPositive(args.omega)

\* C9 as stated: the round trip from a valid component and omega > 0
\* succeeds in both steps and returns the original component.
C9_RoundTripAlways ==
  (RoundTripValid /\ Done)
  => /\ Succeeded
     /\ trace = <<"forward", "back">>
     /\ ret.component = args.component_val

\* No product or reciprocal of the round trip leaves the range of the
\* finite floats: component and omega are finite; omega*component is finite
\* and, unless the component is 0, not 0; for a capacitor the reciprocals
\* of omega*component and of the component are finite.
RoundTripInRange ==
  LET c == args.component_val
      w == args.omega
  IN /\ c # Inf /\ w # Inf
     /\ Mul(w, c) # Inf
     /\ c # Zero => Mul(w, c) # Zero
     /\ args.kind = "C" => (ReciprocalFinite(Mul(w, c)) /\ ReciprocalFinite(c))

\* C9 amended: the round trip from a valid finite component and a finite
\* omega > 0 succeeds in both steps and returns the original component,
\* provided no product or reciprocal overflows or underflows.
C9_RoundTrip ==
  (RoundTripValid /\ RoundTripInRange /\ Done)
  => /\ Succeeded
     /\ trace = <<"forward", "back">>
     /\ ret.component = args.component_val

\* A capacitor round trip has returned the capacitance it started from.
C9_Witness ==
  /\ RoundTripValid /\ RoundTripInRange /\ Succeeded
  /\ args.kind = "C" /\ args.component_val = Pos(2)
  /\ locals.reactance = Pos(-3)
  /\ ret.component = Pos(2)

(***************************************************************************)
(* The impedance arithmetic of the solvers.                                *)
(***************************************************************************)
\* The series solver got valid V_rms, R and f.
SeriesValid ==
  /\ fn = "series"
  /\ ~IsNegative(args.V_rms) /\ ~IsNegative(args.R) /\ ~IsNegative(args.f)

\* Only the reactance +Infinity is supplied: neither component nor
\* frequency, so that omega cannot be determined.
OnlyInfiniteReactance ==
  /\ SeriesValid
  /\ IsNone(args.component_val) /\ IsNone(args.f)
  /\ args.reactance_val = Inf

\* C11: a series call that supplies only the reactance +Infinity is accepted
\* for kind RC, although omega cannot be determined, and its result reports
\* f = 0 and omega = 0; for kind RL it is rejected as insufficient.
C11_OpenCircuitAccepted ==
  (OnlyInfiniteReactance /\ Done)
  => IF args.kind = "RC"
       THEN /\ Succeeded
            /\ results.X = Inf
            /\ results.f = Zero /\ results.omega = Zero
       ELSE /\ outcome = ValueError("Insufficient parameters")
            /\ results = NoResults

\* An RC call with only X_C = +Infinity has returned f = omega = 0.
C11_Witness ==
  /\ OnlyInfiniteReactance /\ Succeeded /\ args.kind = "RC"
  /\ results.f = Zero /\ results.omega = Zero /\ results.Z = Inf

\* C12: whenever the final reactance of a series result is +Infinity, the
\* result is Z = +Infinity, phi = -90, I_rms = 0, V_rms_R = 0 and
\* V_rms_X = V_rms, for every R >= 0 and V_rms >= 0 and both kinds.
C12_OpenCircuitResult ==
  (fn = "series" /\ Succeeded /\ results.X = Inf)
  => /\ results.Z = Inf
     /\ results.phi = Deg(-90)
     /\ results.I_rms = Zero
     /\ results.V_rms_R = Zero
     /\ results.V_rms_X = args.V_rms

\* An RC call with a capacitance and f = 0 has returned the open circuit.
C12_Witness ==
  /\ fn = "series" /\ Succeeded /\ args.kind = "RC"
  /\ args.component_val = One /\ args.f = Zero /\ IsNone(args.reactance_val)
  /\ args.R = One /\ args.V_rms = One
  /\ results.X = Inf /\ results.Z = Inf /\ results.V_rms_X = One

\* C13: whenever R == 0 and the final reactance == 0, the series result is
\* Z = 0, phi = 0, V_rms_R = 0, V_rms_X = 0, and I_rms and I_peak are
\* +Infinity if V_rms > 0 and 0 otherwise.
C13_ShortCircuitResult ==
  (fn = "series" /\ Succeeded /\ args.R = Zero /\ results.X = Zero)
  => /\ results.Z = Zero
     /\ results.phi = Deg(0)
     /\ results.V_rms_R = Zero
     /\ results.V_rms_X = Zero
     /\ results.I_rms = (IF IsPositive(args.V_rms) THEN Inf ELSE Zero)
     /\ results.I_peak = results.I_rms

\* An RL call with R = 0, L = 0 and V_rms > 0 has returned an infinite
\* current.
C13_Witness ==
  /\ fn = "series" /\ Succeeded /\ args.kind = "RL"
  /\ args.R = Zero /\ args.component_val = Zero /\ args.f = One
  /\ args.V_rms = One
  /\ results.Z = Zero /\ results.I_rms = Inf /\ results.I_peak = Inf

\* The messages of the precondition failures of the RLC solvers.
RLCValidationMessages ==
  {"All parameters must be non-negative.",
   "Inductance, capacitance and frequency must be greater than zero for RLC analysis."}

\* An argument of an RLC call violates the preconditions.
RLCInvalid ==
  \/ \E x \in {args.V_rms, args.R, args.L, args.C, args.f} : IsNegative(x)
  \/ \E x \in {args.L, args.C, args.f} : IsNonPositive(x)

C15_SeriesRLCCurrent ==
  (fn = "series_rlc" /\ Succeeded)
  => /\ results.Z = Zero => (args.R = Zero /\ results.X_L = results.X_C)
     /\ (args.R = Zero /\ results.X_L = results.X_C /\ results.X_L # Inf)
          => results.Z = Zero
     /\ results.I_rms =
          (IF results.Z = Zero
             THEN (IF IsPositive(args.V_rms) THEN Inf ELSE Zero)
             ELSE Div(args.V_rms, results.Z))
     /\ results.I_rms.t \in {"zero", "pos"}
          => /\ results.V_rms_R = Mul(results.I_rms, args.R)
             /\ results.V_rms_L = Mul(results.I_rms, results.X_L)
             /\ results.V_rms_C = Mul(results.I_rms, results.X_C)
     /\ results.I_rms = Inf
          => /\ results.V_rms_R = Inf
             /\ results.V_rms_L = Inf
             /\ results.V_rms_C = Inf

\* A series RLC circuit at resonance with R = 0 and V_rms > 0 has returned
\* an infinite current and infinite element voltages.
C15_Witness ==
  /\ fn = "series_rlc" /\ Succeeded
  /\ args.R = Zero /\ args.V_rms = One
  /\ results.X_L = One /\ results.X_C = One
  /\ results.Z = Zero /\ results.I_rms = Inf
  /\ results.V_rms_R = Inf /\ results.V_rms_L = Inf

\* A parallel RLC call that meets the preconditions.
ParallelValid == fn = "parallel_rlc" /\ ~RLCInvalid

\* C16: a parallel RLC call that meets the preconditions with R == 0 returns
\* a result in which I_rms_R = +Infinity while I_rms_L = V_rms/X_L and
\* I_rms_C = V_rms/X_C stay finite; in every result a branch current is
\* +Infinity exactly when its own branch impedance is 0.
C16_BranchCurrentsIndependent ==
  (ParallelValid /\ Done)
  => /\ args.R = Zero
          => /\ Succeeded
             /\ results.I_rms_R = Inf
             /\ results.I_rms_L = Div(args.V_rms, results.X_L)
             /\ results.I_rms_C = Div(args.V_rms, results.X_C)
     /\ Succeeded
          => /\ results.I_rms_R = Inf <=> args.R = Zero
             /\ results.I_rms_L = Inf <=> results.X_L = Zero
             /\ results.I_rms_C = Inf <=> results.X_C = Zero

\* C17: a parallel RLC call with V_rms > 0 and a zero-valued branch (R = 0
\* with L, C, f > 0, or L = 0 with R, C, f > 0) returns a result with Z = 0,
\* I_rms = +Infinity and I_rms_R = I_rms_L = I_rms_C = +Infinity.
C17_ZeroBranchShort ==
  (/\ fn = "parallel_rlc" /\ Done
   /\ IsPositive(args.V_rms)
   /\ IsPositive(args.C) /\ IsPositive(args.f)
   /\ \/ (args.R = Zero /\ IsPositive(args.L))
      \/ (args.L = Zero /\ IsPositive(args.R)))
  => /\ Succeeded
     /\ results.Z = Zero
     /\ results.I_rms = Inf
     /\ results.I_rms_R = Inf
     /\ results.I_rms_L = Inf
     /\ results.I_rms_C = Inf

\* The keys every result mapping of the running solver determines.
DeterminedKeys ==
  IF fn = "series"
    THEN {"V_rms", "R", "X", "Z", "phi", "I_rms", "I_peak", "V_rms_R",
          "V_rms_X", "V_peak"}
  ELSE IF fn = "series_rlc"
    THEN {"V_rms", "R", "L", "C", "f", "omega", "X_L", "X_C", "X", "Z",
          "phi", "I_rms", "I_peak", "V_rms_R", "V_rms_L", "V_rms_C",
          "V_peak"}
  ELSE {"V_rms", "R", "L", "C", "f", "omega", "X_L", "X_C", "Z", "phi",
        "I_rms", "I_peak", "I_rms_R", "I_rms_L", "I_rms_C", "V_peak"}

\* C18: every call of the deriver or of a solver either returns (a solver:
\* its complete result mapping) or raises ValueError with a message; no
\* other exception escapes and a failed call leaves no partial result.
C18_OnlyValueErrors ==
  Done
  => \/ /\ Succeeded
        /\ fn # "derive" => \A k \in DeterminedKeys : ~IsNone(results[k])
     \/ /\ Failed
        /\ outcome.exc = "ValueError"
        /\ outcome.msg # ""
        /\ results = NoResults /\ ret = NoResult

\* The magnitude quantities of a result mapping.
MagnitudeKeys ==
  {"Z", "I_rms", "I_peak", "V_peak", "V_rms_R", "V_rms_X", "V_rms_L",
   "V_rms_C", "I_rms_R", "I_rms_L", "I_rms_C"}

\* C19: no value of a returned result mapping is nan, and the magnitude
\* quantities are finite non-negative numbers or +Infinity.
C19_NoNaNNoNegative ==
  (fn \in {"series", "series_rlc", "parallel_rlc"} /\ Succeeded)
  => /\ \A k \in DOMAIN results : results[k].t # "nan"
     /\ \A k \in MagnitudeKeys \cap DeterminedKeys :
          results[k].t \in {"zero", "pos", "inf"}

\* x is not populated, or is a non-negative number.
NonNegativeIfPopulated(x) == x.t \in {"none", "zero", "pos", "inf"}

\* The data-model invariant of a (component, reactance, omega) triple.
TripleInvariant(c, r, w, param_type) ==
  /\ NonNegativeIfPopulated(c)
  /\ NonNegativeIfPopulated(r)
  /\ NonNegativeIfPopulated(w)
  /\ (param_type = "C" /\ ~IsNone(c)) => IsPositive(c)

\* C20: every triple returned by the deriver, and the component, X and
\* omega of every series result, has its populated values non-negative and
\* a populated capacitance strictly positive.
C20_TripleInvariant ==
  /\ (fn = "derive" /\ Succeeded)
       => TripleInvariant(ret.component, ret.reactance, ret.omega, args.kind)
  /\ (fn = "series" /\ Succeeded)
       => TripleInvariant(results.component, results.X, results.omega,
                          ParamType(args.kind))

(***************************************************************************)
(* Equivalent component combiner (equivalent_capacitance and               *)
(* equivalent_inductance).  core/calculations.py defines neither function; *)
(* tests/test_calculations.py imports and calls both.  They are modelled   *)
(* from section 4.5 of the specification, in exact rational arithmetic: a  *)
(* value is an integer number of units and a result is a fraction.         *)
(***************************************************************************)
MaxValues == 3
EqValues == {-1, 0, 1, 2, 3}

RECURSIVE GCD(_, _)
GCD(a, b) == IF b = 0 THEN a ELSE GCD(b, a % b)

\* The fraction n/d in lowest terms (n >= 0, d > 0).
Frac(n, d) == [num |-> n \div GCD(n, d), den |-> d \div GCD(n, d)]
FracAdd(x, y) == Frac(x.num * y.den + y.num * x.den, x.den * y.den)
FracInverse(x) == Frac(x.den, x.num)

EquivalentFns == {"equivalent_capacitance", "equivalent_inductance"}

\* EquivalentIsSum with the arrangements of the capacitance exchanged.
EquivalentIsSum_CapacitanceSeries(f, arrangement) ==
  arrangement = "series"

\* Parallel capacitances and series inductances add up.
EquivalentIsSum(f, arrangement) ==
  \/ f = "equivalent_capacitance" /\ arrangement = "parallel"
  \/ f = "equivalent_inductance" /\ arrangement = "series"

\* All values must be strictly positive.
EquivalentValidation(values) ==
  IF \E i \in 1..Len(values) : values[i] <= 0
    THEN "All values must be strictly positive."
  ELSE ""

EqSeqs == UNION {[1..n -> EqValues] : n \in 1..MaxValues}

\* A caller calls one of the two functions with a non-empty list of values.
InitEquivalent ==
  /\ pc = "e_validate"
  /\ fn \in EquivalentFns
  /\ \E values \in EqSeqs, arrangement \in {"series", "parallel"} :
       args = [values |-> values, arrangement |-> arrangement]
  /\ locals = [i |-> 1, total |-> Frac(0, 1)]
  /\ outcome = Pending
  /\ ret = NoResult
  /\ results = NoResults
  /\ trace = <<>>
  /\ caller = NoCaller

EquivalentValidate ==
  /\ pc = "e_validate"
  /\ trace' = Append(trace, "validate")
  /\ LET v == EquivalentValidation(args.values)
     IN IF v # ""
          THEN /\ outcome' = ValueError(v)
               /\ pc' = "done"
          ELSE /\ outcome' = outcome
               /\ pc' = "e_accumulate"
  /\ UNCHANGED <<fn, args, locals, ret, results, caller>>

\* One more value enters the running sum (of the values, or of their
\* reciprocals).
EquivalentAccumulate ==
  /\ pc = "e_accumulate"
  /\ locals.i <= Len(args.values)
  /\ LET v == args.values[locals.i]
         term == IF EquivalentIsSum(fn, args.arrangement)
                   THEN Frac(v, 1) ELSE Frac(1, v)
     IN locals' = [i |-> locals.i + 1, total |-> FracAdd(locals.total, term)]
  /\ trace' = IF locals.i = 1 THEN Append(trace, "accumulate") ELSE trace
  /\ UNCHANGED <<pc, fn, args, outcome, ret, results, caller>>

EquivalentReturn ==
  /\ pc = "e_accumulate"
  /\ locals.i > Len(args.values)
  /\ ret' = IF EquivalentIsSum(fn, args.arrangement)
              THEN locals.total ELSE FracInverse(locals.total)
  /\ outcome' = Returned
  /\ pc' = "done"
  /\ trace' = Append(trace, "return")
  /\ UNCHANGED <<fn, args, locals, results, caller>>

NextEquivalent ==
  \/ EquivalentValidate
  \/ EquivalentAccumulate
  \/ EquivalentReturn

SpecEquivalent == InitEquivalent /\ [][NextEquivalent]_vars

RECURSIVE SumOf(_)
SumOf(values) ==
  IF values = <<>> THEN 0 ELSE Head(values) + SumOf(Tail(values))

RECURSIVE ProductOf(_)
ProductOf(values) ==
  IF values = <<>> THEN 1 ELSE Head(values) * ProductOf(Tail(values))

\* values without its i-th entry.
Without(values, i) ==
  SubSeq(values, 1, i - 1) \o SubSeq(values, i + 1, Len(values))

\* x is the reciprocal of the sum of the reciprocals of values:
\* x * (1/v1 + ... + 1/vn) = 1, multiplied out by v1 * ... * vn.
IsReciprocalOfReciprocalSum(x, values) ==
  LET cofactors == [i \in 1..Len(values) |-> ProductOf(Without(values, i))]
  IN x.num * SumOf(cofactors) = x.den * ProductOf(values)

EquivalentDone == pc = "done" /\ fn \in EquivalentFns

\* C22: equivalent_capacitance(values, 'parallel') and
\* equivalent_inductance(values, 'series') return the sum of the values,
\* equivalent_capacitance(values, 'series') and
\* equivalent_inductance(values, 'parallel') return the reciprocal of the
\* sum of the reciprocals, and both fail with a ValueError when any entry is
\* not strictly positive.
C22_EquivalentComponent ==
  EquivalentDone =>
    IF \E i \in 1..Len(args.values) : args.values[i] <= 0
      THEN outcome.kind = "raise" /\ outcome.exc = "ValueError"
    ELSE /\ outcome = Returned
         /\ (fn = "equivalent_capacitance") = (args.arrangement = "parallel")
              => ret.num = ret.den * SumOf(args.values)
         /\ (fn = "equivalent_capacitance") = (args.arrangement = "series")
              => IsReciprocalOfReciprocalSum(ret, args.values)

\* Three capacitances of 1, 2 and 3 units in series combine to 6/11 units.
C22_Witness ==
  /\ EquivalentDone
  /\ fn = "equivalent_capacitance"
  /\ args = [values |-> <<1, 2, 3>>, arrangement |-> "series"]
  /\ ret = [num |-> 6, den |-> 11]

(***************************************************************************)
(* The result mappings of the solvers, as ordered (key, value) items.      *)
(***************************************************************************)
\* Lines 302-322 of calculations.py: the keys of a series result, in order.
SeriesKeys(circuit_type) ==
  <<"V_rms", "R", "f", "omega",
    IF circuit_type = "RL" THEN "L" ELSE "C",
    IF circuit_type = "RL" THEN "X_L" ELSE "X_C",
    "X", "Z", "phi", "I_rms", "I_peak", "V_rms_R", "V_rms_X", "V_peak",
    "_input_L", "_input_C", "_input_XL", "_input_XC", "_input_f">>

\* Lines 372-390.
SeriesRLCKeys ==
  <<"V_rms", "R", "L", "C", "f", "omega", "X_L", "X_C", "X", "Z", "phi",
    "I_rms", "I_peak", "V_rms_R", "V_rms_L", "V_rms_C", "V_peak">>

\* Lines 435-452.
ParallelRLCKeys ==
  <<"V_rms", "R", "L", "C", "f", "omega", "X_L", "X_C", "Z", "phi",
    "I_rms", "I_peak", "I_rms_R", "I_rms_L", "I_rms_C", "V_peak">>

ResultKeys(f, circuit_type) ==
  IF f = "series" THEN SeriesKeys(circuit_type)
  ELSE IF f = "series_rlc" THEN SeriesRLCKeys
  ELSE ParallelRLCKeys

\* ResultValue echoing the component and the reactance under the keys of
\* both circuit types.
ResultValue_EchoBothKinds(r, circuit_type, key) ==
  CASE key \in {"_input_L", "_input_C"} -> r._input_component
    [] key \in {"_input_XL", "_input_XC"} -> r._input_reactance
    [] OTHER -> r[key]

\* The value of a key of the mapping r; lines 317-320 echo the component
\* and the reactance under the keys of the circuit type, None under the
\* keys of the other one.
ResultValue(r, circuit_type, key) ==
  CASE key = "_input_L" ->
         IF circuit_type = "RL" THEN r._input_component ELSE None_
    [] key = "_input_C" ->
         IF circuit_type = "RC" THEN r._input_component ELSE None_
    [] key = "_input_XL" ->
         IF circuit_type = "RL" THEN r._input_reactance ELSE None_
    [] key = "_input_XC" ->
         IF circuit_type = "RC" THEN r._input_reactance ELSE None_
    [] OTHER -> r[key]

\* result.items().
ResultItems(f, circuit_type, r) ==
  LET keys == ResultKeys(f, circuit_type)
  IN [i \in 1..Len(keys) |->
        [key |-> keys[i], value |-> ResultValue(r, circuit_type, keys[i])]]

(***************************************************************************)
(* The command line interface (cli.py).                                    *)
(***************************************************************************)
\* A printed value: a literal, or the digits of the finite number num.
Literal(lit) == [lit |-> lit, num |-> None_]
Digits(x) == [lit |-> "", num |-> x]

\* str() of a float or of None, as the f-string of line 120 formats it.
str(x) ==
  CASE x.t = "none" -> Literal("None")
    [] x.t = "inf" -> Literal("inf")
    [] x.t = "ninf" -> Literal("-inf")
    [] x.t = "nan" -> Literal("nan")
    [] OTHER -> Digits(x)

\* json.dumps of a float or of None (line 117).
json_dumps(x) ==
  CASE x.t = "none" -> Literal("null")
    [] x.t = "inf" -> Literal("Infinity")
    [] x.t = "ninf" -> Literal("-Infinity")
    [] x.t = "nan" -> Literal("NaN")
    [] OTHER -> Digits(x)

CLIFloats == {Neg, Zero, One, Inf}
CLIOptFloats == CLIFloats \cup {None_}
Circuits == {"RL", "RC", "RLC_SERIES", "RLC_PARALLEL"}

Running == [kind |-> "running", code |-> 0, exc |-> ""]
Exited == [kind |-> "return", code |-> 0, exc |-> ""]
SystemExit(code) == [kind |-> "SystemExit", code |-> code, exc |-> ""]
Propagated(exc) == [kind |-> "raise", code |-> 0, exc |-> exc]

\* main is started with flags that parse: --voltage, --resistance and
\* --circuit are required, every number is a float.  a and b are the two
\* flags of the chosen circuit (component and reactance, or inductance and
\* capacitance), other the two flags of the other circuits.
InitCLI ==
  /\ pc = "cli_call"
  /\ fn = "main"
  /\ args = NoArgs
  /\ locals = NoLocals
  /\ outcome = Pending
  /\ ret = NoResult
  /\ results = NoResults
  /\ trace = <<>>
  /\ \E voltage \in CLIFloats, resistance \in CLIFloats,
        a \in CLIOptFloats, b \in CLIOptFloats, other \in {None_, One},
        frequency \in CLIOptFloats, circuit \in Circuits, json \in BOOLEAN :
       caller =
         [program |-> "cli",
          argv |-> [voltage |-> voltage, resistance |-> resistance,
                    component |-> IF circuit \in {"RL", "RC"} THEN a ELSE other,
                    reactance |-> IF circuit \in {"RL", "RC"} THEN b ELSE other,
                    inductance |-> IF circuit \in {"RL", "RC"} THEN other ELSE a,
                    capacitance |-> IF circuit \in {"RL", "RC"} THEN other ELSE b,
                    frequency |-> frequency, circuit |-> circuit, json |-> json],
          stdout |-> <<>>, stderr |-> <<>>, exit |-> Running]

\* Lines 82-113 of cli.py: the arguments of the solver.
CLIArguments(argv) ==
  IF argv.circuit \in {"RL", "RC"}
    THEN [NoArgs EXCEPT !.V_rms = argv.voltage, !.R = argv.resistance,
                        !.component_val = argv.component,
                        !.reactance_val = argv.reactance,
                        !.f = argv.frequency, !.kind = argv.circuit]
    ELSE [NoArgs EXCEPT !.V_rms = argv.voltage, !.R = argv.resistance,
                        !.L = argv.inductance, !.C = argv.capacitance,
                        !.f = argv.frequency]

\* Lines 82-113: the solver of the circuit.
CLISolver(circuit) ==
  IF circuit \in {"RL", "RC"} THEN "series"
  ELSE IF circuit = "RLC_SERIES" THEN "series_rlc"
  ELSE "parallel_rlc"

\* Lines 81-113 of cli.py: main calls the solver of --circuit, or leaves
\* through parser.error (usage on the error stream, exit status 2) when an
\* RLC circuit lacks one of its three flags.
CLICall ==
  /\ pc = "cli_call"
  /\ trace' = Append(trace, "main")
  /\ LET argv == caller.argv
     IN IF /\ argv.circuit \notin {"RL", "RC"}
           /\ \E x \in {argv.inductance, argv.capacitance, argv.frequency} :
                 IsNone(x)
          THEN /\ caller' =
                    [caller EXCEPT
                       !.stderr = <<"--inductance, --capacitance and --frequency are required for RLC circuits">>,
                       !.exit = SystemExit(2)]
               /\ pc' = "exit"
               /\ UNCHANGED <<fn, args>>
          ELSE /\ fn' = CLISolver(argv.circuit)
               /\ args' = CLIArguments(argv)
               /\ pc' = IF argv.circuit \in {"RL", "RC"}
                          THEN "s_validate" ELSE "r_validate"
               /\ UNCHANGED caller
  /\ UNCHANGED <<locals, outcome, ret, results>>

\* CLIPrinted taking every value with str(), also under --json.
CLIPrinted_NeverJSON(items, json) ==
  IF json
    THEN <<[json |-> TRUE,
            items |-> [i \in 1..Len(items) |->
                         [key |-> items[i].key,
                          text |-> str(items[i].value)]]]>>
    ELSE [i \in 1..Len(items) |->
            [json |-> FALSE,
             items |-> <<[key |-> items[i].key,
                          text |-> str(items[i].value)]>>]]

\* Lines 115-120: the lines written to the standard stream, one JSON object
\* or one "key: value" line per item.
CLIPrinted(items, json) ==
  IF json
    THEN <<[json |-> TRUE,
            items |-> [i \in 1..Len(items) |->
                         [key |-> items[i].key,
                          text |-> json_dumps(items[i].value)]]]>>
    ELSE [i \in 1..Len(items) |->
            [json |-> FALSE,
             items |-> <<[key |-> items[i].key,
                          text |-> str(items[i].value)]>>]]

\* Lines 115-123: the solver has returned or raised.  Only a ValueError is
\* caught; any other exception leaves main.
CLIReport ==
  /\ pc = "done"
  /\ caller.program = "cli"
  /\ trace' = Append(trace, "report")
  /\ caller' =
       IF outcome.kind = "return"
         THEN [caller EXCEPT
                 !.stdout = CLIPrinted(ResultItems(fn, args.kind, results),
                                       caller.argv.json),
                 !.exit = Exited]
       ELSE IF outcome.exc = "ValueError"
         THEN [caller EXCEPT !.stderr = <<outcome.msg>>,
                             !.exit = SystemExit(1)]
       ELSE [caller EXCEPT !.exit = Propagated(outcome.exc)]
  /\ pc' = "exit"
  /\ UNCHANGED <<fn, args, locals, outcome, ret, results>>

NextCLI ==
  \/ CLICall
  \/ NextSolvers
  \/ CLIReport

SpecCLI == InitCLI /\ [][NextCLI]_vars

CLIFinished == pc = "exit" /\ caller.program = "cli"
CLISolverFailed == CLIFinished /\ outcome.kind = "raise"

\* C23: whenever the solver selected by --circuit fails, main prints the
\* error message to the error stream, exits with a non-zero status and
\* writes nothing to the standard stream.
C23_FailureReported ==
  CLISolverFailed =>
    /\ caller.stderr = <<outcome.msg>>
    /\ caller.exit.kind = "SystemExit" /\ caller.exit.code # 0
    /\ caller.stdout = <<>>

\* float() of a printed value, as a reader of the "key: value" lines
\* applies it; the text None stands for a null value.
float_of(text) ==
  CASE text.lit = "" -> text.num
    [] text.lit = "inf" -> Inf
    [] text.lit = "-inf" -> NInf
    [] text.lit = "nan" -> NaN
    [] text.lit = "None" -> None_
    [] OTHER -> [t |-> "unparsed", e |-> 0]

\* json.loads of a value of the printed object.
json_loads(text) ==
  CASE text.lit = "" -> text.num
    [] text.lit = "Infinity" -> Inf
    [] text.lit = "-Infinity" -> NInf
    [] text.lit = "NaN" -> NaN
    [] text.lit = "null" -> None_
    [] OTHER -> [t |-> "unparsed", e |-> 0]

\* The (key, text) items on the standard stream, in the order printed.
PrintedItems(stdout) ==
  IF stdout # <<>> /\ stdout[1].json THEN stdout[1].items
  ELSE [i \in 1..Len(stdout) |-> stdout[i].items[1]]

\* stdout is one JSON object, or one line per key.
PrintedAs(stdout, json, n) ==
  IF json THEN Len(stdout) = 1 /\ stdout[1].json
  ELSE /\ Len(stdout) = n
       /\ \A i \in 1..n : ~stdout[i].json /\ Len(stdout[i].items) = 1

CLISucceeded == CLIFinished /\ caller.exit = Exited

\* The solver of the circuit was called with the values of its flags.
CalledWithFlags(argv) ==
  /\ args.V_rms = argv.voltage
  /\ args.R = argv.resistance
  /\ args.f = argv.frequency
  /\ IF argv.circuit \in {"RL", "RC"}
       THEN /\ fn = "series"
            /\ args.kind = argv.circuit
            /\ args.component_val = argv.component
            /\ args.reactance_val = argv.reactance
       ELSE /\ fn = (IF argv.circuit = "RLC_SERIES"
                       THEN "series_rlc" ELSE "parallel_rlc")
            /\ args.L = argv.inductance
            /\ args.C = argv.capacitance

\* C24: on success the output of the CLI is the result of the solver
\* matching --circuit, called with the values of the flags (--component,
\* --reactance and --frequency for RL and RC, --inductance, --capacitance
\* and --frequency for the RLC circuits): every key of the result appears
\* once, in the order of the result, with the value of the result, as
\* "key: value" lines or as one JSON object under --json.
C24_OutputIsResult ==
  CLISucceeded =>
    LET argv == caller.argv
        keys == ResultKeys(fn, argv.circuit)
        printed == PrintedItems(caller.stdout)
    IN /\ CalledWithFlags(argv)
       /\ outcome = Returned
       /\ PrintedAs(caller.stdout, argv.json, Len(keys))
       /\ Len(printed) = Len(keys)
       /\ \A i \in 1..Len(keys) :
            /\ printed[i].key = keys[i]
            /\ (IF argv.json THEN json_loads(printed[i].text)
                             ELSE float_of(printed[i].text))
                 = ResultValue(results, argv.circuit, keys[i])

\* An RC circuit at DC printed as JSON: Z is Infinity and _input_L is null.
C24_Witness ==
  /\ CLISucceeded
  /\ caller.argv.circuit = "RC" /\ caller.argv.json
  /\ results.Z = Inf
  /\ \E i \in 1..Len(caller.stdout[1].items) :
       caller.stdout[1].items[i] = [key |-> "Z", text |-> Literal("Infinity")]
  /\ \E i \in 1..Len(caller.stdout[1].items) :
       caller.stdout[1].items[i] = [key |-> "_input_L", text |-> Literal("null")]

(***************************************************************************)
(* Properties of the series result.                                        *)
(***************************************************************************)
SeriesSucceeded == Succeeded /\ fn = "series"

\* The general case of lines 281-297: the reactance is finite and R and
\* the reactance are not both zero.
GeneralCase ==
  /\ SeriesSucceeded
  /\ results.X # Inf
  /\ ~(results.R = Zero /\ results.X = Zero)

\* Z, I_rms and the two voltage drops of the general case.
GeneralCaseArithmetic ==
  /\ results.Z = hypot(results.R, results.X)
  /\ results.I_rms = Div(results.V_rms, results.Z)
  /\ results.I_rms \notin {Inf, NaN} =>
       /\ results.V_rms_R = Mul(results.I_rms, results.R)
       /\ results.V_rms_X = Mul(results.I_rms, results.X)
  /\ results.I_rms = Inf =>
       /\ results.V_rms_R =
            (IF IsPositive(results.R) /\ IsPositive(results.V_rms)
               THEN Inf ELSE Zero)
       /\ results.V_rms_X =
            (IF IsPositive(results.X) /\ IsPositive(results.V_rms)
               THEN Inf ELSE Zero)

\* C25 as stated: in the general case Z^2 = R^2 + X^2, I_rms = V_rms / Z,
\* the voltage drops are I_rms * R and I_rms * X for a finite I_rms and
\* +Infinity (for a positive element and a positive V_rms) or 0 for an
\* infinite one, and I_peak is +Infinity exactly when I_rms is.
C25_GeneralCaseExact ==
  GeneralCase =>
    /\ GeneralCaseArithmetic
    /\ (results.I_peak = Inf) <=> (results.I_rms = Inf)

\* C25, amended: as above, but I_peak is +Infinity whenever I_rms is, and
\* I_rms * SQRT_2 for a finite I_rms, which overflows to +Infinity only at
\* the top of the range of the doubles.
C25_GeneralCase ==
  GeneralCase =>
    /\ GeneralCaseArithmetic
    /\ results.I_rms = Inf => results.I_peak = Inf
    /\ results.I_rms \notin {Inf, Pos(EMax)} =>
         results.I_peak = Mul(results.I_rms, SQRT_2)
    /\ results.I_rms = Pos(EMax) => results.I_peak \in {Pos(EMax), Inf}

\* An infinite voltage across a resistor: I_rms and V_rms_R are +Infinity,
\* V_rms_X is 0.
C25_Witness ==
  /\ GeneralCase
  /\ results.V_rms = Inf /\ results.R = One /\ results.X = Zero
  /\ results.I_rms = Inf /\ results.I_peak = Inf
  /\ results.V_rms_R = Inf /\ results.V_rms_X = Zero

\* x is a non-negative magnitude.
IsMagnitude(x) == x.t \in {"zero", "pos", "inf"}

\* The phase angles from 0 to s * 90 degrees, both included.
Quadrant(s) == {Deg(0), Acute(s), Deg(s * 90)}

\* C26: in every successful series result phi lies in [0, 90] degrees for
\* an RL circuit and in [-90, 0] degrees for an RC circuit, and the reported
\* reactance X (and X_L or X_C) is the non-negative magnitude.
C26_PhaseSign ==
  SeriesSucceeded =>
    /\ args.kind = "RL" => results.phi \in Quadrant(1)
    /\ args.kind = "RC" => results.phi \in Quadrant(-1)
    /\ IsMagnitude(results.X)
    /\ results.X = (IF args.kind = "RL" THEN results.X_L ELSE results.X_C)

\* The keys of a series result that may hold None.
NullableKeys == {"L", "C", "_input_L", "_input_C", "_input_XL", "_input_XC",
                 "_input_f"}

SeriesValue(key) == ResultValue(results, args.kind, key)

\* Every key but the component and the echoed inputs is determined; the
\* echoed inputs of the other circuit type are None and those of the solved
\* one are the arguments.
ResultDetermined ==
  /\ \A i \in 1..Len(SeriesKeys(args.kind)) :
       LET key == SeriesKeys(args.kind)[i]
       IN IsNone(SeriesValue(key)) => key \in NullableKeys
  /\ SeriesValue("_input_f") = args.f
  /\ IF args.kind = "RL"
       THEN /\ SeriesValue("_input_L") = args.component_val
            /\ SeriesValue("_input_XL") = args.reactance_val
            /\ IsNone(SeriesValue("_input_C"))
            /\ IsNone(SeriesValue("_input_XC"))
       ELSE /\ SeriesValue("_input_C") = args.component_val
            /\ SeriesValue("_input_XC") = args.reactance_val
            /\ IsNone(SeriesValue("_input_L"))
            /\ IsNone(SeriesValue("_input_XL"))

\* C28 as stated: every successful series result has f, omega, X, Z, phi,
\* I_rms, I_peak, V_rms_R, V_rms_X and V_peak determined, with f = 0
\* exactly when omega = 0; only the component and the echoed inputs may be
\* None, those of the other circuit type always are, and those of the solved
\* type are the arguments as supplied.
C28_ResultDeterminedExact ==
  SeriesSucceeded =>
    /\ ResultDetermined
    /\ (results.f = Zero) <=> (results.omega = Zero)

\* C28, amended: f = 0 whenever omega = 0, and otherwise only when omega
\* was derived (no frequency supplied) at the bottom of the range of the
\* doubles, where omega / TWO_PI underflows to 0.
C28_ResultDetermined ==
  SeriesSucceeded =>
    /\ ResultDetermined
    /\ results.omega = Zero => results.f = Zero
    /\ (results.f = Zero /\ results.omega # Zero) =>
         /\ IsNone(args.f)
         /\ results.omega = Pos(-EMin)

\* An inductor at DC with zero reactance: L is indeterminate, f and omega
\* are 0 and the supplied reactance is echoed as _input_XL.
C28_Witness ==
  /\ SeriesSucceeded
  /\ args.kind = "RL" /\ IsNone(args.component_val)
  /\ args.reactance_val = Zero /\ args.f = Zero
  /\ IsNone(results.L)
  /\ results.f = Zero /\ results.omega = Zero
  /\ SeriesValue("_input_XL") = Zero /\ IsNone(SeriesValue("_input_XC"))

\* x is a supplied finite number, or is not supplied.
FiniteIfSupplied(x) == x.t \in {"none", "zero", "pos"}

FiniteInputs ==
  /\ args.V_rms.t \in {"zero", "pos"} /\ args.R.t \in {"zero", "pos"}
  /\ FiniteIfSupplied(args.component_val)
  /\ FiniteIfSupplied(args.reactance_val)
  /\ FiniteIfSupplied(args.f)

\* The two voltage drops add up to the source voltage as the sides of a
\* right triangle do.
VoltageBalance ==
  hypot(results.V_rms_R, results.V_rms_X) = results.V_rms

\* x is a double of the normal range, at least 2.2e-308; the subnormal
\* doubles take the 20 grid values below.
IsNormal(x) == x.t = "pos" /\ x.e >= 20 - EMin

Shown(dialog, figure) == [dialog |-> dialog, figure |-> figure]

\* The outcome of a plotting call and what it showed.
Plotted(out, shown) == [out |-> out, shown |-> shown]

\* math.isclose(x, 0) with the default tolerances (rel_tol 1e-09, abs_tol
\* 0.0): x is 0.0 or -0.0.
isclose_zero(x) == x.t \in {"zero", "nzero"}

\* Lines 30-31 and 203 of app.py.
required_keys_ac == <<"omega", "phi", "I_peak", "V_peak", "R", "X", "f">>
required_keys_dc == <<"V_rms", "I_rms", "V_rms_R", "V_rms_X", "f">>
required_keys == <<"V_rms", "I_rms", "V_rms_R", "V_rms_X", "phi", "f">>

\* Lines 36, 42 and 204: the keys of the list that params lacks.
missing(params, keys) ==
  {keys[i] : i \in {j \in 1..Len(keys) : IsNone(params[keys[j]])}}

\* Line 33.
is_dc(params) == ~IsNone(params.f) /\ isclose_zero(params.f)

\* Line 47: omega <= 0.
NotPositive(x) == x.t \in {"neg", "ninf", "zero", "nzero"}

\* Lines 24-181: plot_waveforms(params, circuit_type).  The library calls
\* that draw a figure are taken to succeed.
plot_waveforms(params, circuit_type) ==
  IF is_dc(params) /\ missing(params, required_keys_dc) # {}
    THEN Plotted(ValueError("Missing required parameters for DC plotting"),
                 Shown("", ""))
  ELSE IF ~is_dc(params) /\ missing(params, required_keys_ac) # {}
    THEN Plotted(ValueError("Missing required parameters for AC plotting"),
                 Shown("", ""))
  ELSE IF ~is_dc(params) /\ NotPositive(params.omega)
    THEN Plotted(ValueError("Cannot plot AC waveform without a positive angular frequency (omega)."),
                 Shown("", ""))
  ELSE IF IsNone(params.phi)
    THEN Plotted(Raise("TypeError", "must be real number, not NoneType"),
                 Shown("", ""))
  ELSE IF params.Z = Inf
    THEN Plotted(Returned, Shown("info", ""))
  ELSE IF params.I_peak = Inf
    THEN Plotted(Returned, Shown("info", ""))
  ELSE IF isclose_zero(params.V_peak) /\ isclose_zero(params.I_peak)
    THEN Plotted(Returned, Shown("info", "zero"))
  ELSE IF is_dc(params)
    THEN Plotted(Returned, Shown("info", "dc"))
  ELSE Plotted(Returned, Shown("", "ac"))

\* Lines 184-291: plot_phasors(params, circuit_type).
plot_phasors(params, circuit_type) ==
  IF missing(params, required_keys) # {}
    THEN Plotted(ValueError("Missing required parameters for phasor plot"),
                 Shown("", ""))
  ELSE IF isclose_zero(params.f)
    THEN Plotted(Returned, Shown("info", ""))
  ELSE IF params.Z = Inf \/ params.I_rms = Inf
    THEN Plotted(Returned, Shown("info", ""))
  ELSE Plotted(Returned, Shown("", "phasors"))

\* One call of a plotting function: params is drawn key by key; the four
\* RMS keys that the two functions require together take one value.
InitPlot ==
  /\ pc = "plot_call"
  /\ fn \in {"plot_waveforms", "plot_phasors"}
  /\ \E circuit_type \in {"RL", "RC"} : args = [NoArgs EXCEPT !.kind = circuit_type]
  /\ locals = NoLocals
  /\ outcome = Pending
  /\ ret = NoResult
  /\ \E f \in {None_, Zero, One}, omega \in {None_, Zero, One},
        Z \in {None_, One, Inf}, phi \in {None_, Deg(0)},
        I_peak \in {None_, Zero, One, Inf}, V_peak \in {None_, Zero, One},
        I_rms \in {None_, One, Inf}, rx \in {None_, One},
        rms \in {None_, One} :
       results = [NoResults EXCEPT
                    !.f = f, !.omega = omega, !.Z = Z, !.phi = phi,
                    !.I_peak = I_peak, !.V_peak = V_peak, !.I_rms = I_rms,
                    !.R = rx, !.X = rx,
                    !.V_rms = rms, !.V_rms_R = rms, !.V_rms_X = rms]
  /\ trace = <<>>
  /\ caller = [program |-> "plot", shown |-> Shown("", "")]

\* A call of plot_waveforms.
PlotWaveforms ==
  /\ pc = "plot_call"
  /\ fn = "plot_waveforms"
  /\ trace' = Append(trace, "plot_waveforms")
  /\ \E p \in {plot_waveforms(results, args.kind)} :
       /\ outcome' = p.out
       /\ caller' = [caller EXCEPT !.shown = p.shown]
  /\ pc' = "plotted"
  /\ UNCHANGED <<fn, args, locals, ret, results>>

\* A call of plot_phasors.
PlotPhasors ==
  /\ pc = "plot_call"
  /\ fn = "plot_phasors"
  /\ trace' = Append(trace, "plot_phasors")
  /\ \E p \in {plot_phasors(results, args.kind)} :
       /\ outcome' = p.out
       /\ caller' = [caller EXCEPT !.shown = p.shown]
  /\ pc' = "plotted"
  /\ UNCHANGED <<fn, args, locals, ret, results>>

NextPlot ==
  \/ PlotWaveforms
  \/ PlotPhasors

SpecPlot == InitPlot /\ [][NextPlot]_vars

\* The parameter sets the claim calls unplottable.
UnplottableWaveform(params) ==
  \/ is_dc(params) /\ missing(params, required_keys_dc) # {}
  \/ ~is_dc(params) /\ missing(params, required_keys_ac) # {}
  \/ params.Z = Inf
  \/ ~is_dc(params) /\ ~IsNone(params.omega) /\ NotPositive(params.omega)

UnplottablePhasors(params) ==
  \/ missing(params, required_keys) # {}
  \/ isclose_zero(params.f)
  \/ params.Z = Inf

PlotFinished == pc = "plotted" /\ caller.program = "plot"

\* C27: a plotting computation fails with an error, and draws nothing, for
\* an unplottable parameter set: the waveform computation when a required
\* parameter is missing, when Z is +Infinity, or when omega is not positive
\* at a non-DC frequency; the phasor computation when a required parameter
\* is missing, when f is 0, or when Z is +Infinity.
C27_UnplottableFails ==
  PlotFinished =>
    /\ fn = "plot_waveforms" /\ UnplottableWaveform(results)
         => outcome.kind = "raise" /\ caller.shown.figure = ""
    /\ fn = "plot_phasors" /\ UnplottablePhasors(results)
         => outcome.kind = "raise" /\ caller.shown.figure = ""

(***************************************************************************)
(* The window of the graphical interface, class ACCircuitSolverApp of      *)
(* gui/app.py.  The handlers run one at a time from the event loop; solve  *)
(* calls the series solver, whose phases run between GUISolve and          *)
(* GUISolved.  trace holds the handler that ran last and its phases.  The  *)
(* text of an entry is what the user typed, drawn when solve reads it.     *)
(***************************************************************************)

\* The text of an entry: nothing, text that float() rejects, or a number.
EmptyEntry == [text |-> "", value |-> None_]
InvalidEntry == [text |-> "abc", value |-> None_]
Number(x) == [text |-> "number", value |-> x]

\* Line 13 and lines 630-637: the factor of the unit selected in a row, here
\* the base unit of the row (V, Ω, H, F, Hz).
UnitFactor == One

\* Lines 586-644: _get_input_value on the entry of a row.
get_input_value(entry, is_optional) ==
  IF entry.text = ""
    THEN (IF is_optional
            THEN [out |-> Returned, value |-> None_]
            ELSE [out |-> ValueError("Input is required."), value |-> None_])
  ELSE IF entry.text # "number"
    THEN [out |-> ValueError("Invalid numeric input. Please enter a number (e.g., 10.5 or 1.5e3)."),
          value |-> None_]
  ELSE [out |-> Returned, value |-> Mul(entry.value, UnitFactor)]

\* Lines 934-940: the rows in the order solve reads them, with is_optional.
InputRows == <<"V", "R", "f", "L", "XL", "C", "XC">>
IsOptionalRow(row) == row \notin {"V", "R"}

\* Lines 934-940: the first exception of reading the rows, or Returned.
ReadEntries(entries) ==
  LET failed == {i \in 1..Len(InputRows) :
                   get_input_value(entries[InputRows[i]],
                                   IsOptionalRow(InputRows[i])).out # Returned}
  IN IF failed = {} THEN Returned
     ELSE LET first == CHOOSE i \in failed : \A j \in failed : i <= j
          IN get_input_value(entries[InputRows[first]],
                             IsOptionalRow(InputRows[first])).out

\* Lines 945-953: the arguments of calculate_series_ac_circuit.
GUIArguments(entries, circuit_type) ==
  LET val(row) == get_input_value(entries[row], IsOptionalRow(row)).value
  IN [NoArgs EXCEPT
        !.V_rms = val("V"), !.R = val("R"),
        !.component_val = IF circuit_type = "RL" THEN val("L") ELSE val("C"),
        !.reactance_val = IF circuit_type = "RL" THEN val("XL") ELSE val("XC"),
        !.f = val("f"), !.kind = circuit_type]

\* Lines 336-346 and 646-681: the window after __init__, which ends with
\* _toggle_fields.
InitGUI ==
  /\ pc = "idle"
  /\ fn = ""
  /\ args = NoArgs
  /\ locals = NoLocals
  /\ outcome = Pending
  /\ ret = NoResult
  /\ results = NoResults
  /\ trace = <<"__init__">>
  /\ caller = [program |-> "gui", circuit_var |-> "RL",
               calc_params |-> NoResults,
               btn_plot_wave |-> "disabled", btn_plot_phasor |-> "disabled",
               text_output |-> "", text_calc_steps |-> "",
               status |-> "RL mode selected. Ready.",
               dialog |-> "", figure |-> ""]

\* Lines 918-953: solve resets the outputs, reads the entries and calls the
\* solver; an entry that cannot be read ends the handler at lines 955-960.
\* The texts typed are V RMS (V), R, the frequency (f), the component (c)
\* and reactance (x) of the selected circuit type, and the two rows of the
\* other circuit type (o).
GUISolve ==
  /\ pc = "idle"
  /\ trace' = <<"solve">>
  /\ \E V \in {EmptyEntry, Number(Zero), Number(One)},
        R \in {Number(Zero), Number(One), Number(NaN)},
        f \in {EmptyEntry, Number(Zero), Number(One)},
        c \in {EmptyEntry, Number(Zero), Number(One)},
        x \in {EmptyEntry, Number(One), Number(Inf)},
        o \in {EmptyEntry, InvalidEntry} :
       LET rl == caller.circuit_var = "RL"
           entries == [V |-> V, R |-> R, f |-> f,
                       L |-> IF rl THEN c ELSE o, XL |-> IF rl THEN x ELSE o,
                       C |-> IF rl THEN o ELSE c, XC |-> IF rl THEN o ELSE x]
           cleared == [caller EXCEPT
                         !.calc_params = NoResults,
                         !.btn_plot_wave = "disabled",
                         !.btn_plot_phasor = "disabled",
                         !.text_output = "", !.text_calc_steps = "",
                         !.dialog = "", !.figure = ""]
       IN \E read \in {ReadEntries(entries)} :
            IF read # Returned
              THEN /\ outcome' = read
                   /\ caller' = [cleared EXCEPT !.dialog = "error",
                                                !.status = "Error! See message."]
                   /\ pc' = "idle"
                   /\ fn' = ""
                   /\ args' = NoArgs
              ELSE /\ outcome' = Pending
                   /\ caller' = [cleared EXCEPT !.status = "Calculating..."]
                   /\ pc' = "s_validate"
                   /\ fn' = "series"
                   /\ args' = GUIArguments(entries, caller.circuit_var)
  /\ locals' = NoLocals
  /\ ret' = NoResult
  /\ results' = NoResults

\* Lines 1043-1046: the solver's result has no infinite impedance or current.
no_inf(params) == params.Z # Inf /\ params.I_rms # Inf

\* Lines 1041-1042 and 1048-1060: the state of the waveform button.
WaveButton(params) ==
  IF /\ no_inf(params)
     /\ ~IsNone(params.f)
     /\ (IsPositive(params.f) \/ isclose_zero(params.f))
    THEN "normal" ELSE "disabled"

\* Lines 1041-1042 and 1055-1060: the state of the phasor button.
PhasorButton(params) ==
  IF no_inf(params) /\ ~IsNone(params.f) /\ IsPositive(params.f)
    THEN "normal" ELSE "disabled"

\* Lines 955-1067: the solver has returned or raised.  A ValueError and any
\* other exception end the handler with an error box; a result is stored in
\* calc_params and displayed, and the plot buttons are set from it.
GUISolved ==
  /\ pc = "done"
  /\ caller.program = "gui"
  /\ trace' = Append(trace, "solved")
  /\ caller' =
       IF outcome.kind = "raise"
         THEN [caller EXCEPT
                 !.dialog = "error",
                 !.status = IF outcome.exc = "ValueError"
                              THEN "Error! See message."
                              ELSE "Unexpected Error!"]
         ELSE [caller EXCEPT
                 !.calc_params = results,
                 !.text_output = "results",
                 !.text_calc_steps = "steps",
                 !.btn_plot_wave = WaveButton(results),
                 !.btn_plot_phasor = PhasorButton(results),
                 !.status = IF no_inf(results)
                              THEN "Calculation Complete."
                              ELSE "Calculation Complete (Open/Short Circuit)."]
  /\ pc' = "idle"
  /\ UNCHANGED <<fn, args, locals, outcome, ret, results>>

\* Lines 646-681: _toggle_fields, the handler of the circuit-type buttons.
GUIToggle ==
  /\ pc = "idle"
  /\ trace' = <<"_toggle_fields">>
  /\ \E circuit_type \in {"RL", "RC"} :
       caller' = [caller EXCEPT
                    !.circuit_var = circuit_type,
                    !.calc_params = NoResults,
                    !.btn_plot_wave = "disabled",
                    !.btn_plot_phasor = "disabled",
                    !.text_output = "", !.text_calc_steps = "",
                    !.status = IF circuit_type = "RL"
                                 THEN "RL mode selected. Ready."
                                 ELSE "RC mode selected. Ready.",
                    !.dialog = "", !.figure = ""]
  /\ UNCHANGED <<pc, fn, args, locals, outcome, ret, results>>

\* Lines 683-702: clear_inputs.
GUIClear ==
  /\ pc = "idle"
  /\ trace' = <<"clear_inputs">>
  /\ caller' = [caller EXCEPT
                  !.calc_params = NoResults,
                  !.btn_plot_wave = "disabled",
                  !.btn_plot_phasor = "disabled",
                  !.text_output = "", !.text_calc_steps = "",
                  !.status = "Inputs Cleared. Ready.",
                  !.dialog = "", !.figure = ""]
  /\ UNCHANGED <<pc, fn, args, locals, outcome, ret, results>>

\* Lines 1076-1097 and 1106-1127: the window after a plotting function
\* has returned or raised.
AfterPlot(p, done) ==
  IF p.out.kind = "raise"
    THEN [caller EXCEPT !.dialog = "error", !.figure = "",
                        !.status = "Plotting Error!"]
    ELSE [caller EXCEPT !.dialog = p.shown.dialog, !.figure = p.shown.figure,
                        !.status = done]

\* Lines 1070-1097: plot_waveforms_action.
GUIPlotWaveforms ==
  /\ pc = "idle"
  /\ trace' = <<"plot_waveforms_action">>
  /\ caller' =
       IF caller.calc_params = NoResults \/ caller.btn_plot_wave = "disabled"
         THEN [caller EXCEPT !.dialog = "warning", !.figure = ""]
         ELSE AfterPlot(plot_waveforms(caller.calc_params, caller.circuit_var),
                        "Waveform Plotting Complete. Ready.")
  /\ UNCHANGED <<pc, fn, args, locals, outcome, ret, results>>

\* Lines 1099-1127: plot_phasors_action.
GUIPlotPhasors ==
  /\ pc = "idle"
  /\ trace' = <<"plot_phasors_action">>
  /\ caller' =
       IF caller.calc_params = NoResults \/ caller.btn_plot_phasor = "disabled"
         THEN [caller EXCEPT !.dialog = "warning", !.figure = ""]
         ELSE AfterPlot(plot_phasors(caller.calc_params, caller.circuit_var),
                        "Phasor Plotting Complete. Ready.")
  /\ UNCHANGED <<pc, fn, args, locals, outcome, ret, results>>

NextGUI ==
  \/ GUISolve
  \/ NextSeries
  \/ GUISolved
  \/ GUIToggle
  \/ GUIClear
  \/ GUIPlotWaveforms
  \/ GUIPlotPhasors

SpecGUI == InitGUI /\ [][NextGUI]_vars

\* The most recent solve succeeded, and calc_params holds its result.
HoldsLastResult ==
  outcome.kind = "return" /\ caller.calc_params = results

\* x is a finite number.
IsFiniteNumber(x) == x.t \in {"neg", "zero", "nzero", "pos"}

\* A plot button is enabled only while calc_params holds the result of the
\* most recent solve, which succeeded with Z and I_rms finite; the phasor
\* button only if f > 0 as well.
ButtonsEnabledOnlyForResult ==
  /\ caller.btn_plot_wave = "normal" \/ caller.btn_plot_phasor = "normal"
       => /\ HoldsLastResult
          /\ IsFiniteNumber(results.Z)
          /\ IsFiniteNumber(results.I_rms)
  /\ caller.btn_plot_phasor = "normal" => IsPositive(results.f)

\* A failed solve, clear_inputs and _toggle_fields leave calc_params empty
\* and both buttons disabled.
ResetLeavesNothing ==
  (\/ trace[1] \in {"clear_inputs", "_toggle_fields"}
   \/ trace[1] = "solve" /\ outcome.kind = "raise")
    => /\ caller.calc_params = NoResults
       /\ caller.btn_plot_wave = "disabled"
       /\ caller.btn_plot_phasor = "disabled"

\* A plot action that drew a figure drew the result of the most recent
\* solve, which succeeded with Z and I_rms finite.
PlotsOnlyResult ==
  trace[1] \in {"plot_waveforms_action", "plot_phasors_action"}
    /\ caller.figure # ""
    => /\ HoldsLastResult
       /\ IsFiniteNumber(results.Z)
       /\ IsFiniteNumber(results.I_rms)

\* C30: over any sequence of solve, clear, circuit-type toggle and plot
\* actions, a plot button is enabled only while calc_params holds the
\* result of the most recent solve and that solve succeeded with Z and
\* I_rms both finite (the phasor button only when f > 0 as well); a failed
\* solve, a clear and a toggle leave calc_params empty and both buttons
\* disabled; a plot action never draws stale, failed or open/short-circuit
\* results.
C30_GUIState ==
  caller.program = "gui" =>
    /\ ButtonsEnabledOnlyForResult
    /\ ResetLeavesNothing
    /\ PlotsOnlyResult

====
